---- MODULE Spec2Model ----
(***************************************************************************)
(* Model of the Uptime Kuma socket client (src/src/uptime-kuma-client.ts): *)
(* the channel handle, the channels created by connect(), the listeners    *)
(* registered on them, the two caches fed by the five push events, the     *)
(* login round trips and disconnect(); and of the adapter process around   *)
(* it (src/src/index.ts, src/src/server.ts): environment validation,       *)
(* server creation (connect, then login), the monitor tools and shutdown.   *)
(*                                                                         *)
(* The runtime is single-threaded: every method and every event handler    *)
(* runs to completion, so each is one action.  A push event is delivered   *)
(* to every listener registered for it on the channel it arrives on, in    *)
(* registration order.  StepSpec takes two handlers one statement at a     *)
(* time instead, to see what run-to-completion keeps from the readers.     *)
(***************************************************************************)
EXTENDS Integers, Sequences, FiniteSets, TLC

VARIABLES
    socket,             \* this.socket: NoSocket (null) or the index of a channel
    sockets,            \* every channel created by io(...), in creation order
    monitorListCache,   \* this.monitorListCache: key string -> monitor record
    heartbeatListCache, \* this.heartbeatListCache: key string -> heartbeat array
    logins,             \* every login() call made so far and its promise
    lastEvent,          \* the operation that ran last, with its arguments
    deleted,            \* ids deleted and not carried by a monitor event since
    nPush,              \* number of push events delivered so far
    nOps,               \* number of operations and signals so far
    proc,               \* the adapter process: environment, phase, exit
    running,            \* the handler on the call stack and the statement it is at
    heap                \* which objects the caches are, and the result a caller holds

clientVars == <<socket, sockets, monitorListCache, heartbeatListCache, logins,
                lastEvent, deleted, nPush, nOps>>

vars == <<socket, sockets, monitorListCache, heartbeatListCache, logins,
          lastEvent, deleted, nPush, nOps, proc, running, heap>>

----------------------------------------------------------------------------
(* Bounds of the exploration *)

MaxId == 2          \* monitor ids are 1..MaxId
MaxConnects == 2    \* connect() calls
MaxLogins == 2      \* login() calls
MaxPush == 2        \* push events delivered
MaxOps == 6         \* operations and signals in a run
Extra == 1          \* pushed histories reach the ceiling plus Extra

(* Program constants *)

NoSocket == 0
HeartbeatLimit == 100

Ids == 1..MaxId

PushEvents == {"monitorList", "updateMonitorIntoList", "deleteMonitorFromList",
               "heartbeatList", "heartbeat"}

----------------------------------------------------------------------------
(* Values *)

\* Number.prototype.toString for the small non-negative integers used as ids
Digits == <<"0", "1", "2", "3", "4", "5", "6", "7", "8", "9">>

toString(n) == Digits[n + 1]

Keys == {toString(i) : i \in Ids}

\* the value of a property that is not there
Undefined == [undefined |-> TRUE]

Has(obj, field) == field \in DOMAIN obj

EmptyObject == [k \in {} |-> Undefined]

\* Monitor objects the upstream sends: the two of the merge example
MonitorObjects == { [a |-> 1, b |-> 2], [b |-> 3, c |-> 4] }

\* { [id]: monitor } payloads of monitorList and updateMonitorIntoList: no id,
\* one id or every id, carrying one of the objects
MonitorLists ==
    { [k \in K |-> o] : K \in {{}, Keys} \cup {{k} : k \in Keys}, o \in MonitorObjects }

HbMsg(s) == IF s = 1 THEN "OK" ELSE "timeout"

\* heartbeat objects of the incremental event: the owner id under monitorID,
\* under monitor_id only, under both, or under neither
HeartbeatObjects ==
    { [monitorID |-> i, status |-> 1, time |-> HeartbeatLimit + Extra + 1, msg |-> HbMsg(1)] :
          i \in Ids }
    \cup { [monitorID |-> 1, status |-> 0, time |-> HeartbeatLimit + Extra + 1, msg |-> HbMsg(0)] }
    \cup { [monitor_id |-> 1, status |-> 1, time |-> HeartbeatLimit + Extra + 1, msg |-> HbMsg(1)] }
    \cup { [monitorID |-> 1, monitor_id |-> MaxId, status |-> 0,
            time |-> HeartbeatLimit + Extra + 1, msg |-> HbMsg(0)] }
    \cup { [status |-> 1, time |-> HeartbeatLimit + Extra + 1, msg |-> HbMsg(1)] }

\* a history of n heartbeats of monitor i as the upstream stores it, most
\* recent first
History(i, n) ==
    [j \in 1..n |-> [monitor_id |-> i, status |-> 1, time |-> n - j + 1, msg |-> HbMsg(1)]]

\* short histories, and histories at and over the limit
ShortLengths == {0, 3}

LongLengths == {HeartbeatLimit} \cup { HeartbeatLimit + e : e \in 1..Extra }

\* argument lists of the push events; an argument the upstream leaves out is
\* undefined in the handler
MonitorListArgs == { <<m>> : m \in MonitorLists }

DeleteArgs == { <<i>> : i \in Ids } \cup { <<>> }

HeartbeatListArgs ==
    { <<i, History(i, n)>> : i \in Ids, n \in ShortLengths }
    \cup { <<1, History(1, n)>> : n \in LongLengths }
    \cup { <<1>>, <<>> }

HeartbeatArgs == { <<h>> : h \in HeartbeatObjects }

----------------------------------------------------------------------------
(* The handlers, as functions of the caches *)

\* variant: the full list is merged into the cached mapping
OnMonitorListMerge(mc, args) ==
    [k \in DOMAIN mc \cup DOMAIN args[1] |->
        IF k \in DOMAIN args[1] THEN args[1][k] ELSE mc[k]]

\* this.monitorListCache = monitorList
OnMonitorList(mc, args) == args[1]

\* variant: the supplied object is merged into the cached record key by key
ObjectAssignDeep(target, source) ==
    [k \in DOMAIN target \cup DOMAIN source |->
        IF k \in DOMAIN source
        THEN IF k \in DOMAIN target
             THEN [f \in DOMAIN target[k] \cup DOMAIN source[k] |->
                      IF f \in DOMAIN source[k] THEN source[k][f] ELSE target[k][f]]
             ELSE source[k]
        ELSE target[k]]

\* Object.assign(this.monitorListCache, updates)
ObjectAssign(target, source) ==
    [k \in DOMAIN target \cup DOMAIN source |->
        IF k \in DOMAIN source THEN source[k] ELSE target[k]]

OnUpdateMonitorIntoList(mc, args) == ObjectAssign(mc, args[1])

\* delete obj[key]
DeleteKey(obj, key) == [k \in DOMAIN obj \ {key} |-> obj[k]]

\* monitorID.toString() raises a TypeError on undefined
DeleteThrows(args) == Len(args) < 1

\* variant: the deletion leaves the mapping as it is
OnDeleteKeepsKey(mc, args) == mc

OnDeleteMonitorFromList(mc, args) == DeleteKey(mc, toString(args[1]))

\* heartbeatList.length is read first, then monitorID.toString()
HeartbeatListThrows(args) == Len(args) < 2

\* variant: the pushed array is put in front of the stored sequence
OnHeartbeatListMerge(hc, args) ==
    [k \in DOMAIN hc \cup {toString(args[1])} |->
        IF k = toString(args[1])
        THEN args[2] \o (IF k \in DOMAIN hc THEN hc[k] ELSE <<>>)
        ELSE hc[k]]

\* this.heartbeatListCache[monitorID.toString()] = heartbeatList
OnHeartbeatList(hc, args) ==
    [k \in DOMAIN hc \cup {toString(args[1])} |->
        IF k = toString(args[1]) THEN args[2] ELSE hc[k]]

\* !heartbeat.monitorID
MissingMonitorID(hb) == ~Has(hb, "monitorID") \/ hb.monitorID = 0

\* array.slice(0, n)
Slice(arr, n) == SubSeq(arr, 1, IF n < Len(arr) THEN n ELSE Len(arr))

\* variant: no truncation after the insertion
TruncateNever(arr) == arr

\* the array after unshift and the truncation to the limit
Truncate(arr) == IF Len(arr) > HeartbeatLimit THEN Slice(arr, HeartbeatLimit) ELSE arr

\* variant: a heartbeat without monitorID is stored under the key "undefined"
OnHeartbeatOrphan(hc, args) ==
    LET hb == args[1]
        monitorID == IF Has(hb, "monitorID") THEN toString(hb.monitorID) ELSE "undefined"
        old == IF monitorID \in DOMAIN hc THEN hc[monitorID] ELSE <<>>
    IN [k \in DOMAIN hc \cup {monitorID} |->
           IF k = monitorID THEN Truncate(<<hb>> \o old) ELSE hc[k]]

OnHeartbeat(hc, args) ==
    LET hb == args[1] IN
    IF MissingMonitorID(hb) THEN hc
    ELSE LET monitorID == toString(hb.monitorID)
             old == IF monitorID \in DOMAIN hc THEN hc[monitorID] ELSE <<>>
         IN [k \in DOMAIN hc \cup {monitorID} |->
                IF k = monitorID THEN Truncate(<<hb>> \o old) ELSE hc[k]]

\* the handler registered for each event, on the pair of caches
Throws(e, args) ==
    CASE e = "deleteMonitorFromList" -> DeleteThrows(args)
      [] e = "heartbeatList" -> HeartbeatListThrows(args)
      [] OTHER -> FALSE

\* variant: deleting a monitor drops its heartbeat history as well
HandlerCascade(e, caches, args) ==
    CASE e = "monitorList" ->
            [caches EXCEPT !.monitors = OnMonitorList(@, args)]
      [] e = "updateMonitorIntoList" ->
            [caches EXCEPT !.monitors = OnUpdateMonitorIntoList(@, args)]
      [] e = "deleteMonitorFromList" ->
            [caches EXCEPT !.monitors = OnDeleteMonitorFromList(@, args),
                           !.heartbeats = DeleteKey(@, toString(args[1]))]
      [] e = "heartbeatList" ->
            [caches EXCEPT !.heartbeats = OnHeartbeatList(@, args)]
      [] e = "heartbeat" ->
            [caches EXCEPT !.heartbeats = OnHeartbeat(@, args)]

Handler(e, caches, args) ==
    CASE e = "monitorList" ->
            [caches EXCEPT !.monitors = OnMonitorList(@, args)]
      [] e = "updateMonitorIntoList" ->
            [caches EXCEPT !.monitors = OnUpdateMonitorIntoList(@, args)]
      [] e = "deleteMonitorFromList" ->
            [caches EXCEPT !.monitors = OnDeleteMonitorFromList(@, args)]
      [] e = "heartbeatList" ->
            [caches EXCEPT !.heartbeats = OnHeartbeatList(@, args)]
      [] e = "heartbeat" ->
            [caches EXCEPT !.heartbeats = OnHeartbeat(@, args)]

\* the channel calls every listener registered for the event, in order
RECURSIVE Dispatch(_, _, _, _)
Dispatch(e, n, caches, args) ==
    IF n = 0 THEN caches ELSE Dispatch(e, n - 1, Handler(e, caches, args), args)

----------------------------------------------------------------------------
(* Query facade *)

\* variant: a miss returns some cached record
getMonitorAny(monitorID) ==
    IF toString(monitorID) \in DOMAIN monitorListCache
    THEN monitorListCache[toString(monitorID)]
    ELSE IF monitorListCache # EmptyObject
    THEN monitorListCache[CHOOSE k \in DOMAIN monitorListCache : TRUE]
    ELSE Undefined

getMonitor(monitorID) ==
    IF toString(monitorID) \in DOMAIN monitorListCache
    THEN monitorListCache[toString(monitorID)] ELSE Undefined

getMonitorList == monitorListCache

\* variant: monitors with an empty history are left out
getHeartbeatListNonEmpty(maxHeartbeats) ==
    [k \in { o \in DOMAIN heartbeatListCache : Len(heartbeatListCache[o]) > 0 } |->
        Slice(heartbeatListCache[k], maxHeartbeats)]

getHeartbeatList(maxHeartbeats) ==
    [k \in DOMAIN heartbeatListCache |-> Slice(heartbeatListCache[k], maxHeartbeats)]

\* variant: the whole stored history
getHeartbeatsForMonitorAll(monitorID, maxHeartbeats) ==
    IF toString(monitorID) \in DOMAIN heartbeatListCache
    THEN heartbeatListCache[toString(monitorID)]
    ELSE <<>>

getHeartbeatsForMonitor(monitorID, maxHeartbeats) ==
    IF toString(monitorID) \in DOMAIN heartbeatListCache
    THEN Slice(heartbeatListCache[toString(monitorID)], maxHeartbeats) ELSE <<>>

----------------------------------------------------------------------------
(* Lifecycle *)

NoListeners == [e \in PushEvents |-> 0]

NewSocket == [connected |-> FALSE, active |-> TRUE, listeners |-> NoListeners,
              promise |-> "pending", error |-> ""]

\* what the record of an operation keeps of the state it started from
Before == [monitors |-> monitorListCache,
           heartbeats |-> \E k \in DOMAIN heartbeatListCache : Len(heartbeatListCache[k]) >= 1]

NoEvent == [op |-> "new", chan |-> NoSocket, args |-> <<>>, calls |-> 0, threw |-> FALSE,
            before |-> [monitors |-> EmptyObject, heartbeats |-> FALSE]]

Event(op, chan, args, calls, threw) ==
    [op |-> op, chan |-> chan, args |-> args, calls |-> calls, threw |-> threw,
     before |-> Before]

\* no handler is on the call stack
Idle == [at |-> "idle"]

\* object identities are followed in HeapSpec only
NoHeap == [next |-> 0]

\* new UptimeKumaClient(url)
ClientInit ==
    /\ socket = NoSocket
    /\ sockets = <<>>
    /\ monitorListCache = EmptyObject
    /\ heartbeatListCache = EmptyObject
    /\ logins = <<>>
    /\ lastEvent = NoEvent
    /\ deleted = {}
    /\ nPush = 0
    /\ nOps = 0
    /\ running = Idle

\* the client used as a library by an arbitrary caller: no adapter process
NoProcess == [phase |-> "none"]

Init == ClientInit /\ proc = NoProcess /\ heap = NoHeap

\* a run is cut after MaxOps steps
Tick == nOps < MaxOps /\ nOps' = nOps + 1

\* connect(): a new channel replaces the handle; the previous one is not closed
Connect ==
    /\ Tick
    /\ Len(sockets) < MaxConnects
    /\ sockets' = Append(sockets, NewSocket)
    /\ socket' = Len(sockets) + 1
    /\ lastEvent' = Event("connect", Len(sockets) + 1, <<>>, 0, FALSE)
    /\ UNCHANGED <<monitorListCache, heartbeatListCache, logins, deleted, nPush>>

\* variant: every signal settles the promise anew
SettleAgain(s, outcome, error) == [s EXCEPT !.promise = outcome, !.error = error]

\* resolve() / reject(error) of the promise connect() returned: only the first
\* call has an effect
SettlePromise(s, outcome, error) ==
    IF s.promise = "pending" THEN [s EXCEPT !.promise = outcome, !.error = error] ELSE s

\* error.message of a connect_error signal
ConnectErrors == {"xhr poll error"}

\* the channel signals 'connect': the first signal settles the promise
SocketConnect(c) ==
    /\ Tick
    /\ sockets[c].active /\ ~sockets[c].connected
    /\ sockets' = [sockets EXCEPT ![c] = [SettlePromise(@, "resolved", "")
                                            EXCEPT !.connected = TRUE]]
    /\ lastEvent' = Event("socket.connect", c, <<>>, 0, FALSE)
    /\ UNCHANGED <<socket, monitorListCache, heartbeatListCache, logins, deleted, nPush>>

\* the channel signals 'connect_error'
SocketConnectError(c) ==
    /\ Tick
    /\ sockets[c].active /\ ~sockets[c].connected
    /\ \E message \in ConnectErrors :
          /\ sockets' = [sockets EXCEPT
                ![c] = SettlePromise(@, "rejected", "Connection failed: " \o message)]
          /\ lastEvent' = Event("socket.connect_error", c, <<message>>, 0, FALSE)
    /\ UNCHANGED <<socket, monitorListCache, heartbeatListCache, logins, deleted, nPush>>

\* the transport is lost; the channel keeps its listeners and reconnects
SocketDrop(c) ==
    /\ Tick
    /\ sockets[c].active /\ sockets[c].connected
    /\ sockets' = [sockets EXCEPT ![c].connected = FALSE]
    /\ lastEvent' = Event("socket.drop", c, <<>>, 0, FALSE)
    /\ UNCHANGED <<socket, monitorListCache, heartbeatListCache, logins, deleted, nPush>>

\* variant: the listeners stay on the closed channel
ReleasedWithListeners(s) == [s EXCEPT !.connected = FALSE, !.active = FALSE]

\* socket.off(event) for the five events, socket.disconnect()
Released(s) == [s EXCEPT !.listeners = NoListeners, !.connected = FALSE, !.active = FALSE]

\* variant: no guard on the handle, so the first call on null raises
ReleaseSocketUnguarded(sk, ss) ==
    IF sk # NoSocket
    THEN [sockets |-> [ss EXCEPT ![sk] = Released(@)], threw |-> FALSE]
    ELSE [sockets |-> ss, threw |-> TRUE]

\* if (this.socket) { ...; this.socket = null }
ReleaseSocket(sk, ss) ==
    IF sk # NoSocket
    THEN [sockets |-> [ss EXCEPT ![sk] = Released(@)], threw |-> FALSE]
    ELSE [sockets |-> ss, threw |-> FALSE]

\* disconnect(): release the channel, then clear the caches
Disconnect ==
    /\ Tick
    /\ LET r == ReleaseSocket(socket, sockets)
       IN /\ sockets' = r.sockets
          /\ socket' = IF r.threw THEN socket ELSE NoSocket
          /\ monitorListCache' = IF r.threw THEN monitorListCache ELSE EmptyObject
          /\ heartbeatListCache' = IF r.threw THEN heartbeatListCache ELSE EmptyObject
          /\ lastEvent' = Event("disconnect", socket, <<>>, 0, r.threw)
    /\ UNCHANGED <<logins, deleted, nPush>>

\* setupMonitorListListeners(): socket.on for the three monitor events
MonitorListEvents == {"monitorList", "updateMonitorIntoList", "deleteMonitorFromList"}

HeartbeatEvents == {"heartbeatList", "heartbeat"}

AddListeners(s, events) ==
    [s EXCEPT !.listeners = [e \in PushEvents |-> IF e \in events THEN @[e] + 1 ELSE @[e]]]

setupMonitorListListeners(s) == AddListeners(s, MonitorListEvents)

setupHeartbeatListeners(s) == AddListeners(s, HeartbeatEvents)

\* login(username, password, token?) argument lists
LoginArgs == { <<"", "key123">>, <<"admin", "secret", "123456">> }

\* loginData: the token is included only if truthy
LoginData(args) ==
    IF Len(args) >= 3 /\ args[3] # ""
    THEN [username |-> args[1], password |-> args[2], token |-> args[3]]
    ELSE [username |-> args[1], password |-> args[2]]

\* variant: only the handle is tested
NotConnectedNullOnly == socket = NoSocket

NotConnected == socket = NoSocket \/ ~sockets[socket].connected

\* variant: the request is emitted before the listeners are registered
LoginEmitFirst(s, c, args) ==
    [socket |-> setupHeartbeatListeners(setupMonitorListListeners(s)),
     call |-> [chan |-> c, state |-> "pending", msg |-> "", value |-> EmptyObject,
               emitted |-> TRUE, data |-> LoginData(args),
               listenersAtEmit |-> s.listeners]]

\* the body of login() on an established channel: the socket after the two
\* setup calls, and the call record of socket.emit('login', ...)
LoginOnSocket(s, c, args) ==
    LET ready == setupHeartbeatListeners(setupMonitorListListeners(s))
    IN [socket |-> ready,
        call |-> [chan |-> c, state |-> "pending", msg |-> "", value |-> EmptyObject,
                  emitted |-> TRUE, data |-> LoginData(args),
                  listenersAtEmit |-> ready.listeners]]

RejectedLogin ==
    [chan |-> socket, state |-> "rejected", msg |-> "Not connected to server",
     value |-> EmptyObject, emitted |-> FALSE, data |-> EmptyObject,
     listenersAtEmit |-> NoListeners]

Login(args) ==
    /\ Tick
    /\ Len(logins) < MaxLogins
    /\ IF NotConnected
       THEN /\ logins' = Append(logins, RejectedLogin)
            /\ UNCHANGED sockets
       ELSE LET r == LoginOnSocket(sockets[socket], socket, args)
            IN /\ sockets' = [sockets EXCEPT ![socket] = r.socket]
               /\ logins' = Append(logins, r.call)
    /\ lastEvent' = Event("login", socket, args, 0, FALSE)
    /\ UNCHANGED <<socket, monitorListCache, heartbeatListCache, deleted, nPush>>

\* acknowledgements of the login request
LoginResponses == { [ok |-> TRUE, token |-> "jwt"],
                    [ok |-> FALSE, msg |-> "Incorrect username or password."],
                    [ok |-> FALSE, msg |-> ""], [ok |-> FALSE] }

\* response.msg || 'Login failed'
FailureMessage(response) ==
    IF Has(response, "msg") /\ response.msg # "" THEN response.msg ELSE "Login failed"

\* variant: the acknowledgement resolves the promise whatever its ok flag
SettleResolves(call, response) == [call EXCEPT !.state = "resolved", !.value = response]

\* if (response.ok) resolve(response) else reject(new Error(...))
Settle(call, response) ==
    IF response.ok THEN [call EXCEPT !.state = "resolved", !.value = response]
    ELSE [call EXCEPT !.state = "rejected", !.msg = FailureMessage(response)]

LoginAck(l, response) ==
    /\ Tick
    /\ logins[l].emitted /\ logins[l].state = "pending"
    /\ sockets[logins[l].chan].connected
    /\ logins' = [logins EXCEPT ![l] = Settle(@, response)]
    /\ lastEvent' = Event("login.ack", logins[l].chan, <<response>>, 0, FALSE)
    /\ UNCHANGED <<socket, sockets, monitorListCache, heartbeatListCache, deleted, nPush>>

----------------------------------------------------------------------------
(* Push events *)

CarriedIds(e, args) ==
    IF e \in {"monitorList", "updateMonitorIntoList"}
    THEN {i \in Ids : toString(i) \in DOMAIN args[1]} ELSE {}

\* the upstream pushes event e with args on channel c
Push(c, e, args) ==
    /\ Tick
    /\ nPush < MaxPush
    /\ sockets[c].connected
    /\ LET n == sockets[c].listeners[e]
           threw == n > 0 /\ Throws(e, args)
           before == [monitors |-> monitorListCache, heartbeats |-> heartbeatListCache]
           after == IF threw THEN before ELSE Dispatch(e, n, before, args)
       IN /\ monitorListCache' = after.monitors
          /\ heartbeatListCache' = after.heartbeats
          /\ lastEvent' = Event(e, c, args, IF threw THEN 1 ELSE n, threw)
          /\ deleted' = IF n = 0 \/ threw THEN deleted
                        ELSE IF e = "deleteMonitorFromList"
                             THEN deleted \cup {args[1]}
                             ELSE deleted \ CarriedIds(e, args)
    /\ nPush' = nPush + 1
    /\ UNCHANGED <<socket, sockets, logins>>

PushMonitorList(c) == \E args \in MonitorListArgs : Push(c, "monitorList", args)

PushUpdateMonitorIntoList(c) == \E args \in MonitorListArgs : Push(c, "updateMonitorIntoList", args)

PushDeleteMonitorFromList(c) == \E args \in DeleteArgs : Push(c, "deleteMonitorFromList", args)

PushHeartbeatList(c) == \E args \in HeartbeatListArgs : Push(c, "heartbeatList", args)

PushHeartbeat(c) == \E args \in HeartbeatArgs : Push(c, "heartbeat", args)

----------------------------------------------------------------------------

Next ==
    \/ Connect /\ UNCHANGED <<proc, running, heap>>
    \/ \E c \in 1..Len(sockets) : SocketConnect(c) /\ UNCHANGED <<proc, running, heap>>
    \/ \E c \in 1..Len(sockets) : SocketConnectError(c) /\ UNCHANGED <<proc, running, heap>>
    \/ \E c \in 1..Len(sockets) : SocketDrop(c) /\ UNCHANGED <<proc, running, heap>>
    \/ Disconnect /\ UNCHANGED <<proc, running, heap>>
    \/ \E args \in LoginArgs : Login(args) /\ UNCHANGED <<proc, running, heap>>
    \/ \E l \in 1..Len(logins), response \in LoginResponses :
          LoginAck(l, response) /\ UNCHANGED <<proc, running, heap>>
    \/ \E c \in 1..Len(sockets) : PushMonitorList(c) /\ UNCHANGED <<proc, running, heap>>
    \/ \E c \in 1..Len(sockets) : PushUpdateMonitorIntoList(c) /\ UNCHANGED <<proc, running, heap>>
    \/ \E c \in 1..Len(sockets) : PushDeleteMonitorFromList(c) /\ UNCHANGED <<proc, running, heap>>
    \/ \E c \in 1..Len(sockets) : PushHeartbeatList(c) /\ UNCHANGED <<proc, running, heap>>
    \/ \E c \in 1..Len(sockets) : PushHeartbeat(c) /\ UNCHANGED <<proc, running, heap>>

Spec == Init /\ [][Next]_vars

----------------------------------------------------------------------------
(* The client with an upstream that answers: every login request that was   *)
(* sent is acknowledged as long as its channel stays connected              *)

\* the acknowledgement callback of socket.emit('login', ...) is called
Acknowledge(l, response) ==
    /\ logins[l].emitted /\ logins[l].state = "pending"
    /\ sockets[logins[l].chan].connected
    /\ logins' = [logins EXCEPT ![l] = Settle(@, response)]
    /\ lastEvent' = Event("login.ack", logins[l].chan, <<response>>, 0, FALSE)
    /\ UNCHANGED <<socket, sockets, monitorListCache, heartbeatListCache, deleted,
                   nPush, nOps>>

Acknowledged == \E l \in 1..Len(logins), response \in LoginResponses : Acknowledge(l, response)

LiveNext ==
    \/ Connect /\ UNCHANGED <<proc, running, heap>>
    \/ \E c \in 1..Len(sockets) : SocketConnect(c) /\ UNCHANGED <<proc, running, heap>>
    \/ Disconnect /\ UNCHANGED <<proc, running, heap>>
    \/ \E args \in LoginArgs : Login(args) /\ UNCHANGED <<proc, running, heap>>
    \/ Acknowledged /\ UNCHANGED <<proc, running, heap>>
    \/ \E c \in 1..Len(sockets) : PushMonitorList(c) /\ UNCHANGED <<proc, running, heap>>

\* the upstream does not leave a request on a connected channel unanswered
LiveSpec == Init /\ [][LiveNext]_vars /\ WF_vars(Acknowledged /\ UNCHANGED <<proc, running, heap>>)

----------------------------------------------------------------------------
(* Strings that the summary filter takes apart are sequences of characters *)

UpperCase ==
    <<"A", "B", "C", "D", "E", "F", "G", "H", "I", "J", "K", "L", "M",
      "N", "O", "P", "Q", "R", "S", "T", "U", "V", "W", "X", "Y", "Z">>

LowerCase ==
    <<"a", "b", "c", "d", "e", "f", "g", "h", "i", "j", "k", "l", "m",
      "n", "o", "p", "q", "r", "s", "t", "u", "v", "w", "x", "y", "z">>

\* String.prototype.toLowerCase
toLowerCase(str) ==
    [c \in 1..Len(str) |->
        IF \E u \in 1..Len(UpperCase) : UpperCase[u] = str[c]
        THEN LowerCase[CHOOSE u \in 1..Len(UpperCase) : UpperCase[u] = str[c]]
        ELSE str[c]]

\* String.prototype.includes: sub occurs in str as a contiguous run
includes(str, sub) ==
    \E at \in 0..(Len(str) - Len(sub)) : SubSeq(str, at + 1, at + Len(sub)) = sub

\* \s of the regular expression, for the characters of the model
IsSpace(c) == c = " "

\* String.prototype.trim
RECURSIVE trim(_)
trim(str) ==
    IF str # <<>> /\ IsSpace(Head(str)) THEN trim(Tail(str))
    ELSE IF str # <<>> /\ IsSpace(str[Len(str)]) THEN trim(SubSeq(str, 1, Len(str) - 1))
    ELSE str

\* str.split(/\s+/) of a trimmed string: the runs between runs of white space;
\* the empty string splits into one empty token
RECURSIVE split(_)
split(str) ==
    IF \A i \in 1..Len(str) : ~IsSpace(str[i]) THEN <<str>>
    ELSE LET sp == CHOOSE i \in 1..Len(str) :
                      IsSpace(str[i]) /\ \A j \in 1..(i - 1) : ~IsSpace(str[j])
             rest == SubSeq(str, sp + 1, Len(str))
         IN <<SubSeq(str, 1, sp - 1)>> \o split(trim(rest))

\* keywords ? keywords.trim().split(/\s+/).map(k => k.toLowerCase()) : []
\* (an omitted argument and the empty string are both falsy)
keywordArray(args) ==
    IF Len(args) = 0 \/ args[1] = <<>> THEN <<>>
    ELSE LET tokens == split(trim(args[1]))
         IN [t \in 1..Len(tokens) |-> toLowerCase(tokens[t])]

\* variant: one matching keyword is enough
MatchesAnyKeyword(pathNameLower, keywords) ==
    \E w \in 1..Len(keywords) : includes(pathNameLower, keywords[w])

\* keywordArray.every(keyword => pathNameLower.includes(keyword))
MatchesAllKeywords(pathNameLower, keywords) ==
    \A w \in 1..Len(keywords) : includes(pathNameLower, keywords[w])

\* variant: the keys in descending numeric order
OwnKeysDescending(obj) ==
    LET up == SelectSeq(Digits, LAMBDA d : d \in DOMAIN obj)
    IN [j \in 1..Len(up) |-> up[Len(up) - j + 1]]

\* Object.entries order of the keys of a cache: integer-like keys in ascending
\* numeric order
OwnKeys(obj) == SelectSeq(Digits, LAMBDA d : d \in DOMAIN obj)

\* monitor.pathName.toLowerCase() raises a TypeError on a monitor object
\* without pathName; it is evaluated only when there are keywords
SummaryThrows(keywords) ==
    /\ Len(keywords) > 0
    /\ \E k \in DOMAIN monitorListCache : ~Has(monitorListCache[k], "pathName")

\* the monitors that pass the keyword filter, in iteration order
SummaryKeys(keywords) ==
    SelectSeq(OwnKeys(monitorListCache),
              LAMBDA k : Len(keywords) > 0 =>
                  MatchesAllKeywords(toLowerCase(monitorListCache[k].pathName), keywords))

\* variant: the oldest stored heartbeat
OldestHeartbeat(key) ==
    IF key \in DOMAIN heartbeatListCache /\ Len(heartbeatListCache[key]) > 0
    THEN heartbeatListCache[key][Len(heartbeatListCache[key])]
    ELSE EmptyObject

\* heartbeats && heartbeats.length > 0 ? heartbeats[0] : undefined
LatestHeartbeat(key) ==
    IF key \in DOMAIN heartbeatListCache /\ Len(heartbeatListCache[key]) > 0
    THEN heartbeatListCache[key][1]
    ELSE EmptyObject

SummaryMonitorFields == {"id", "name", "pathName", "active", "maintenance"}

SummaryHeartbeatFields == {"status", "msg"}

\* the summary entry of a monitor; a property whose value is undefined is a
\* field outside the record's domain
SummaryEntry(monitor, latestHeartbeat) ==
    [f \in (SummaryMonitorFields \cap DOMAIN monitor)
            \cup (SummaryHeartbeatFields \cap DOMAIN latestHeartbeat) |->
        IF f \in SummaryHeartbeatFields THEN latestHeartbeat[f] ELSE monitor[f]]

\* getMonitorSummary(keywords?)
getMonitorSummary(args) ==
    IF SummaryThrows(keywordArray(args))
    THEN [threw |-> TRUE, value |-> Undefined]
    ELSE LET keys == SummaryKeys(keywordArray(args))
         IN [threw |-> FALSE,
             value |-> [j \in 1..Len(keys) |->
                           SummaryEntry(monitorListCache[keys[j]], LatestHeartbeat(keys[j]))]]

----------------------------------------------------------------------------
(* The query facade called on a session that receives push events *)

\* path names of the monitors, by id
PathName(i) ==
    CASE i = 1 -> <<"p", "r", "o", "d", "/", "a", "p", "i">>
      [] i = 2 -> <<"p", "r", "o", "d", "/", "w", "e", "b">>
      [] OTHER -> <<"L", "a", "b", "/", "D", "B">>

\* the record of monitor i as the upstream sends it
Monitor(i) ==
    [id |-> i, name |-> "monitor " \o toString(i), pathName |-> PathName(i),
     active |-> TRUE, maintenance |-> FALSE]

\* an update that names only the changed field
PartialMonitor == [active |-> FALSE]

\* payloads of monitorList and updateMonitorIntoList: complete records of no,
\* one or every monitor, or a partial object for monitor 1
SessionMonitorLists ==
    { [k \in {toString(i) : i \in I} |-> Monitor(CHOOSE i \in I : toString(i) = k)] :
          I \in {{}, Ids} \cup {{i} : i \in Ids} }
    \cup { [k \in {toString(1)} |-> PartialMonitor] }

\* a history of n heartbeats, most recent first: the monitor went down with the
\* most recent one
Recent(i, n) ==
    [j \in 1..n |-> [monitor_id |-> i, status |-> IF j = 1 THEN 0 ELSE 1,
                     time |-> n - j + 1, msg |-> HbMsg(IF j = 1 THEN 0 ELSE 1)]]

SessionLengths == {0, 10}

SessionHeartbeatLists == { <<i, Recent(i, n)>> : i \in Ids, n \in SessionLengths }

\* maxHeartbeats of the two heartbeat queries: omitted, below and above the
\* length of a stored history
MaxHeartbeatsArgs == { <<>>, <<3>>, <<12>> }

\* keywords of getMonitorSummary: omitted, "prod api", "API  prod", "prod",
\* "staging"
KeywordArgs ==
    { <<>>,
      <<<<"p", "r", "o", "d", " ", "a", "p", "i">>>>,
      <<<<"A", "P", "I", " ", " ", "p", "r", "o", "d">>>>,
      <<<<"p", "r", "o", "d">>>>,
      <<<<"s", "t", "a", "g", "i", "n", "g">>>> }

\* maxHeartbeats: number = 1
DefaultMaxHeartbeats == 1

MaxHeartbeats(args) == IF Len(args) >= 1 THEN args[1] ELSE DefaultMaxHeartbeats

\* the record of a query call: its parameters, and what it returned or that it
\* raised
Returned(op, args, result) ==
    [op |-> op, chan |-> socket, params |-> args, calls |-> 0, threw |-> result.threw,
     before |-> Before, returned |-> result.value]

Value(v) == [threw |-> FALSE, value |-> v]

\* variant: a query empties the heartbeat cache it has read
QueryConsumes(op, args, result) ==
    /\ lastEvent' = Returned(op, args, result)
    /\ heartbeatListCache' = EmptyObject
    /\ UNCHANGED <<socket, sockets, monitorListCache, logins, deleted, nPush, nOps>>

\* a query assigns to no field of the client
Query(op, args, result) ==
    /\ lastEvent' = Returned(op, args, result)
    /\ UNCHANGED <<socket, sockets, monitorListCache, heartbeatListCache, logins,
                   deleted, nPush, nOps>>

QueryGetMonitor ==
    \E i \in Ids : Query("getMonitor", <<i>>, Value(getMonitor(i)))

QueryGetMonitorList == Query("getMonitorList", <<>>, Value(getMonitorList))

QueryGetHeartbeatList ==
    \E args \in MaxHeartbeatsArgs :
        Query("getHeartbeatList", args, Value(getHeartbeatList(MaxHeartbeats(args))))

QueryGetHeartbeatsForMonitor ==
    \E i \in Ids, args \in MaxHeartbeatsArgs :
        Query("getHeartbeatsForMonitor", <<i>> \o args,
              Value(getHeartbeatsForMonitor(i, MaxHeartbeats(args))))

QueryGetMonitorSummary ==
    \E args \in KeywordArgs : Query("getMonitorSummary", args, getMonitorSummary(args))

Queries == {"getMonitor", "getMonitorList", "getHeartbeatList",
            "getHeartbeatsForMonitor", "getMonitorSummary"}

\* the push events of the session arrive on the channel of the handle
SessionMonitorList ==
    socket # NoSocket /\ \E m \in SessionMonitorLists : Push(socket, "monitorList", <<m>>)

SessionUpdateMonitorIntoList ==
    socket # NoSocket
        /\ \E m \in SessionMonitorLists : Push(socket, "updateMonitorIntoList", <<m>>)

SessionDeleteMonitorFromList ==
    socket # NoSocket /\ \E args \in DeleteArgs : Push(socket, "deleteMonitorFromList", args)

SessionHeartbeatList ==
    socket # NoSocket /\ \E args \in SessionHeartbeatLists : Push(socket, "heartbeatList", args)

\* a heartbeat that reaches the session late: it is older than most of a
\* stored history
LateHeartbeat == [monitorID |-> 1, status |-> 1, time |-> 2, msg |-> HbMsg(1)]

SessionHeartbeatArgs == HeartbeatArgs \cup { <<LateHeartbeat>> }

SessionHeartbeat ==
    socket # NoSocket /\ \E args \in SessionHeartbeatArgs : Push(socket, "heartbeat", args)

\* a caller connects, logs in once and then queries while push events arrive,
\* until it disconnects
QueryNext ==
    \/ socket = NoSocket /\ sockets = <<>> /\ Connect /\ UNCHANGED <<proc, running, heap>>
    \/ socket # NoSocket /\ SocketConnect(socket) /\ UNCHANGED <<proc, running, heap>>
    \/ logins = <<>> /\ Login(<<"admin", "secret">>) /\ UNCHANGED <<proc, running, heap>>
    \/ socket # NoSocket /\ Disconnect /\ UNCHANGED <<proc, running, heap>>
    \/ SessionMonitorList /\ UNCHANGED <<proc, running, heap>>
    \/ SessionUpdateMonitorIntoList /\ UNCHANGED <<proc, running, heap>>
    \/ SessionDeleteMonitorFromList /\ UNCHANGED <<proc, running, heap>>
    \/ SessionHeartbeatList /\ UNCHANGED <<proc, running, heap>>
    \/ SessionHeartbeat /\ UNCHANGED <<proc, running, heap>>
    \/ QueryGetMonitor /\ UNCHANGED <<proc, running, heap>>
    \/ QueryGetMonitorList /\ UNCHANGED <<proc, running, heap>>
    \/ QueryGetHeartbeatList /\ UNCHANGED <<proc, running, heap>>
    \/ QueryGetHeartbeatsForMonitor /\ UNCHANGED <<proc, running, heap>>
    \/ QueryGetMonitorSummary /\ UNCHANGED <<proc, running, heap>>

QuerySpec == Init /\ [][QueryNext]_vars

----------------------------------------------------------------------------
(* The handlers statement by statement: what a reader could see if it ran   *)
(* between two statements of a handler                                      *)

\* variant: the heartbeat handler awaits between the insertion and the
\* truncation
YieldsBeforeTruncate(at) == at = "truncate"

\* a handler gives up the call stack only at an await: the handlers are
\* synchronous functions, none of their statements is one
Yields(at) == FALSE

\* the caller's code, a query included, runs when no handler is on the call
\* stack
CallStackEmpty == running = Idle \/ Yields(running.at)

\* the handler that starts: its event, its arguments, the caches it started
\* from and the keys Object.assign has still to copy
Entered(at, e, args, todo) ==
    [at |-> at, event |-> e, payload |-> args, todo |-> todo,
     start |-> [monitors |-> monitorListCache, heartbeats |-> heartbeatListCache]]

\* the record of the event whose handler has returned
Handled ==
    [op |-> running.event, chan |-> socket, args |-> running.payload, calls |-> 1,
     threw |-> FALSE,
     before |-> [monitors |-> running.start.monitors,
                 heartbeats |-> \E k \in DOMAIN running.start.heartbeats :
                                    Len(running.start.heartbeats[k]) >= 1]]

\* a push event reaches the one listener of the session
Delivered(e) ==
    /\ running = Idle
    /\ socket # NoSocket
    /\ sockets[socket].connected
    /\ sockets[socket].listeners[e] = 1
    /\ nPush < MaxPush
    /\ Tick
    /\ nPush' = nPush + 1

\* histories as the upstream sends them: none, or as many as it keeps
StepHeartbeatLists == { <<i, History(i, n)>> : i \in Ids, n \in {0, HeartbeatLimit} }

StepHeartbeatList ==
    running = Idle /\ socket # NoSocket
        /\ \E args \in StepHeartbeatLists : Push(socket, "heartbeatList", args)

\* the heartbeat handler returns at its guard, or there is no listener yet
HeartbeatReturns ==
    /\ running = Idle /\ socket # NoSocket
    /\ \E args \in HeartbeatArgs :
          /\ ~(sockets[socket].listeners["heartbeat"] = 1 /\ ~MissingMonitorID(args[1]))
          /\ Push(socket, "heartbeat", args)

\* if (!this.heartbeatListCache[monitorID]) this.heartbeatListCache[monitorID] = []
HeartbeatBegin ==
    /\ Delivered("heartbeat")
    /\ \E args \in HeartbeatArgs :
          /\ ~MissingMonitorID(args[1])
          /\ LET monitorID == toString(args[1].monitorID)
             IN heartbeatListCache' =
                    [k \in DOMAIN heartbeatListCache \cup {monitorID} |->
                        IF k \in DOMAIN heartbeatListCache
                        THEN heartbeatListCache[k] ELSE <<>>]
          /\ running' = Entered("unshift", "heartbeat", args, <<>>)
    /\ UNCHANGED <<socket, sockets, monitorListCache, logins, lastEvent, deleted>>

\* this.heartbeatListCache[monitorID].unshift(heartbeat)
HeartbeatUnshift ==
    /\ running.at = "unshift"
    /\ LET heartbeat == running.payload[1]
       IN heartbeatListCache' =
              [heartbeatListCache EXCEPT ![toString(heartbeat.monitorID)] = <<heartbeat>> \o @]
    /\ running' = [running EXCEPT !.at = "truncate"]
    /\ UNCHANGED <<socket, sockets, monitorListCache, logins, lastEvent, deleted,
                   nPush, nOps>>

\* if (length > 100) this.heartbeatListCache[monitorID] = ....slice(0, 100)
HeartbeatTruncate ==
    /\ running.at = "truncate"
    /\ heartbeatListCache' =
          [heartbeatListCache EXCEPT ![toString(running.payload[1].monitorID)] = Truncate(@)]
    /\ lastEvent' = Handled
    /\ running' = Idle
    /\ UNCHANGED <<socket, sockets, monitorListCache, logins, deleted, nPush, nOps>>

\* Object.assign with nothing to copy, or there is no listener yet
UpdateReturns ==
    /\ running = Idle /\ socket # NoSocket
    /\ \E m \in SessionMonitorLists :
          /\ ~(sockets[socket].listeners["updateMonitorIntoList"] = 1 /\ m # EmptyObject)
          /\ Push(socket, "updateMonitorIntoList", <<m>>)

\* Object.assign(this.monitorListCache, updates) starts on the own keys of
\* updates
UpdateBegin ==
    /\ Delivered("updateMonitorIntoList")
    /\ \E m \in SessionMonitorLists :
          /\ m # EmptyObject
          /\ running' = Entered("assign", "updateMonitorIntoList", <<m>>, OwnKeys(m))
    /\ UNCHANGED <<socket, sockets, monitorListCache, heartbeatListCache, logins,
                   lastEvent, deleted>>

\* Object.assign copies the next key; after the last one the handler returns
UpdateAssign ==
    /\ running.at = "assign"
    /\ LET key == Head(running.todo)
           updates == running.payload[1]
       IN monitorListCache' =
              [k \in DOMAIN monitorListCache \cup {key} |->
                  IF k = key THEN updates[key] ELSE monitorListCache[k]]
    /\ IF Len(running.todo) = 1
       THEN /\ running' = Idle
            /\ lastEvent' = Handled
            /\ deleted' = deleted \ CarriedIds(running.event, running.payload)
       ELSE /\ running' = [running EXCEPT !.todo = Tail(@)]
            /\ UNCHANGED <<lastEvent, deleted>>
    /\ UNCHANGED <<socket, sockets, heartbeatListCache, logins, nPush, nOps>>

\* the session of QueryNext, with the heartbeat and updateMonitorIntoList
\* handlers taken one statement at a time
StepNext ==
    \/ socket = NoSocket /\ sockets = <<>> /\ Connect /\ UNCHANGED <<proc, running, heap>>
    \/ running = Idle /\ socket # NoSocket /\ SocketConnect(socket)
          /\ UNCHANGED <<proc, running, heap>>
    \/ running = Idle /\ logins = <<>> /\ Login(<<"admin", "secret">>)
          /\ UNCHANGED <<proc, running, heap>>
    \/ running = Idle /\ SessionMonitorList /\ UNCHANGED <<proc, running, heap>>
    \/ running = Idle /\ SessionDeleteMonitorFromList /\ UNCHANGED <<proc, running, heap>>
    \/ StepHeartbeatList /\ UNCHANGED <<proc, running, heap>>
    \/ HeartbeatReturns /\ UNCHANGED <<proc, running, heap>>
    \/ HeartbeatBegin /\ UNCHANGED <<proc, heap>>
    \/ HeartbeatUnshift /\ UNCHANGED <<proc, heap>>
    \/ HeartbeatTruncate /\ UNCHANGED <<proc, heap>>
    \/ UpdateReturns /\ UNCHANGED <<proc, running, heap>>
    \/ UpdateBegin /\ UNCHANGED <<proc, heap>>
    \/ UpdateAssign /\ UNCHANGED <<proc, heap>>
    \/ CallStackEmpty /\ QueryGetMonitor /\ UNCHANGED <<proc, running, heap>>
    \/ CallStackEmpty /\ QueryGetMonitorList /\ UNCHANGED <<proc, running, heap>>
    \/ CallStackEmpty /\ QueryGetHeartbeatList /\ UNCHANGED <<proc, running, heap>>
    \/ CallStackEmpty /\ QueryGetHeartbeatsForMonitor /\ UNCHANGED <<proc, running, heap>>
    \/ CallStackEmpty /\ QueryGetMonitorSummary /\ UNCHANGED <<proc, running, heap>>

StepSpec == Init /\ [][StepNext]_vars

----------------------------------------------------------------------------
(* Object identity: the caches are references to objects, a handler either  *)
(* changes the object in place or makes the cache refer to another object,  *)
(* and a caller keeps the object a query returned                           *)

\* an object that only the caller refers to
Own == 0

NoResult == [op |-> "none"]

\* monitorListCache = {} and heartbeatListCache = {} of the field initialisers:
\* the monitor mapping is object 1, there is no heartbeat array yet
NewHeap == [monitors |-> 1, arrays |-> EmptyObject, next |-> 2, held |-> NoResult]

HeapInit == ClientInit /\ proc = NoProcess /\ heap = NewHeap

\* object id is changed in place: the caller sees the new content through
\* every reference to that object it holds
Mutated(h, id, content) ==
    IF h.held.op = "none" THEN h
    ELSE [h EXCEPT !.held.now =
            [p \in DOMAIN h.held.parts |->
                IF h.held.parts[p] = id THEN content ELSE h.held.now[p]]]

\* the heartbeat handler on the array objects: a new array for a new key,
\* unshift in place, and a new array from slice when the limit is passed
HeartbeatOnHeap(h, hb) ==
    LET key == toString(hb.monitorID)
        known == key \in DOMAIN h.arrays
        array == IF known THEN h.arrays[key] ELSE h.next
        free == IF known THEN h.next ELSE h.next + 1
        grown == <<hb>> \o (IF known THEN heartbeatListCache[key] ELSE <<>>)
        over == Len(grown) > HeartbeatLimit
    IN [Mutated(h, array, grown) EXCEPT
           !.arrays = [k \in DOMAIN h.arrays \cup {key} |->
                          IF k = key THEN (IF over THEN free ELSE array) ELSE h.arrays[k]],
           !.next = IF over THEN free + 1 ELSE free]

\* what the handler of event e does to the objects
HeapAfter(h, e, args) ==
    CASE e = "monitorList" ->
            [h EXCEPT !.monitors = h.next, !.next = h.next + 1]
      [] e = "updateMonitorIntoList" ->
            Mutated(h, h.monitors, OnUpdateMonitorIntoList(monitorListCache, args))
      [] e = "deleteMonitorFromList" ->
            Mutated(h, h.monitors, OnDeleteMonitorFromList(monitorListCache, args))
      [] e = "heartbeatList" ->
            [h EXCEPT !.arrays = [k \in DOMAIN h.arrays \cup {toString(args[1])} |->
                                     IF k = toString(args[1]) THEN h.next ELSE h.arrays[k]],
                      !.next = h.next + 1]
      [] e = "heartbeat" ->
            IF MissingMonitorID(args[1]) THEN h ELSE HeartbeatOnHeap(h, args[1])

\* a push event of the session and its effect on the objects
HeapPush(e, args) ==
    /\ socket # NoSocket
    /\ Push(socket, e, args)
    /\ heap' = IF sockets[socket].listeners[e] >= 1 /\ ~Throws(e, args)
               THEN HeapAfter(heap, e, args) ELSE heap

HeapMonitorList == \E m \in SessionMonitorLists : HeapPush("monitorList", <<m>>)

HeapUpdateMonitorIntoList ==
    \E m \in SessionMonitorLists : HeapPush("updateMonitorIntoList", <<m>>)

HeapDeleteMonitorFromList == \E args \in DeleteArgs : HeapPush("deleteMonitorFromList", args)

HeapHeartbeatList == \E args \in StepHeartbeatLists : HeapPush("heartbeatList", args)

HeapHeartbeat == \E args \in HeartbeatArgs : HeapPush("heartbeat", args)

\* disconnect(): both caches are assigned a new empty object
HeapDisconnect ==
    /\ socket # NoSocket
    /\ Disconnect
    /\ heap' = [heap EXCEPT !.monitors = heap.next, !.arrays = EmptyObject,
                            !.next = heap.next + 1]

\* the caller keeps the result of a query: the objects it is made of, its
\* content when it was returned, its content now, and which object the
\* monitor cache was when the query returned
Held(op, parts, content) ==
    [op |-> op, parts |-> parts, returned |-> content, now |-> content,
     at |-> heap.monitors]

\* variant: a copy of the mapping is returned
ReturnedMappingCopy == Own

\* return this.monitorListCache
ReturnedMapping == heap.monitors

\* variant: the cached array itself is returned
ReturnedArrayCached(key) ==
    IF key \in DOMAIN heap.arrays THEN heap.arrays[key] ELSE Own

\* return heartbeats.slice(0, maxHeartbeats), or a new []
ReturnedArray(key) == Own

HoldMonitorList ==
    /\ QueryGetMonitorList
    /\ heap' = [heap EXCEPT !.held =
                   Held("getMonitorList", [mapping |-> ReturnedMapping],
                        [mapping |-> getMonitorList])]

\* result[monitorID] = heartbeats.slice(0, maxHeartbeats) on a new object
HoldHeartbeatList ==
    \E args \in MaxHeartbeatsArgs :
        /\ Query("getHeartbeatList", args, Value(getHeartbeatList(MaxHeartbeats(args))))
        /\ heap' = [heap EXCEPT !.held =
                       Held("getHeartbeatList",
                            [k \in DOMAIN heartbeatListCache |-> ReturnedArray(k)],
                            getHeartbeatList(MaxHeartbeats(args)))]

HoldHeartbeatsForMonitor ==
    \E i \in Ids, args \in MaxHeartbeatsArgs :
        /\ Query("getHeartbeatsForMonitor", <<i>> \o args,
                 Value(getHeartbeatsForMonitor(i, MaxHeartbeats(args))))
        /\ heap' = [heap EXCEPT !.held =
                       Held("getHeartbeatsForMonitor", [array |-> ReturnedArray(toString(i))],
                            [array |-> getHeartbeatsForMonitor(i, MaxHeartbeats(args))])]

\* the session of QueryNext with a caller that keeps what a query returned
HeapNext ==
    \/ socket = NoSocket /\ sockets = <<>> /\ Connect /\ UNCHANGED <<proc, running, heap>>
    \/ socket # NoSocket /\ SocketConnect(socket) /\ UNCHANGED <<proc, running, heap>>
    \/ logins = <<>> /\ Login(<<"admin", "secret">>) /\ UNCHANGED <<proc, running, heap>>
    \/ HeapMonitorList /\ UNCHANGED <<proc, running>>
    \/ HeapUpdateMonitorIntoList /\ UNCHANGED <<proc, running>>
    \/ HeapDeleteMonitorFromList /\ UNCHANGED <<proc, running>>
    \/ HeapHeartbeatList /\ UNCHANGED <<proc, running>>
    \/ HeapHeartbeat /\ UNCHANGED <<proc, running>>
    \/ HeapDisconnect /\ UNCHANGED <<proc, running>>
    \/ HoldMonitorList /\ UNCHANGED <<proc, running>>
    \/ HoldHeartbeatList /\ UNCHANGED <<proc, running>>
    \/ HoldHeartbeatsForMonitor /\ UNCHANGED <<proc, running>>

HeapSpec == HeapInit /\ [][HeapNext]_vars

----------------------------------------------------------------------------
(* The adapter process: src/src/index.ts and createServer of src/src/server.ts *)

EnvNames == {"UPTIME_KUMA_URL", "UPTIME_KUMA_USERNAME", "UPTIME_KUMA_PASSWORD"}

EnvValues == [UPTIME_KUMA_URL |-> {"http://kuma:3001"},
              UPTIME_KUMA_USERNAME |-> {"", "admin"},
              UPTIME_KUMA_PASSWORD |-> {"key123"}]

\* process.env: a variable is unset or holds a string, possibly the empty one
Envs == { [n \in D |-> v[n]] :
            D \in SUBSET EnvNames,
            v \in { f \in [EnvNames -> UNION { EnvValues[n] : n \in EnvNames }] :
                      \A n \in EnvNames : f[n] \in EnvValues[n] } }

Transports == {"stdio", "streamable-http"}

\* !process.env[name]: unset and the empty string are both falsy
Falsy(env, name) == name \notin DOMAIN env \/ env[name] = ""

Required(name) == "Error: " \o name \o " environment variable is required"

\* validateEnvironment(): the first falsy variable ends the process with code 1
validateEnvironment(env) ==
    IF Falsy(env, "UPTIME_KUMA_URL")
    THEN [exit |-> TRUE, stderr |-> Required("UPTIME_KUMA_URL"), config |-> EmptyObject]
    ELSE IF Falsy(env, "UPTIME_KUMA_USERNAME")
    THEN [exit |-> TRUE, stderr |-> Required("UPTIME_KUMA_USERNAME"), config |-> EmptyObject]
    ELSE IF Falsy(env, "UPTIME_KUMA_PASSWORD")
    THEN [exit |-> TRUE, stderr |-> Required("UPTIME_KUMA_PASSWORD"), config |-> EmptyObject]
    ELSE [exit |-> FALSE, stderr |-> "",
          config |-> [url |-> env["UPTIME_KUMA_URL"],
                      username |-> env["UPTIME_KUMA_USERNAME"],
                      password |-> env["UPTIME_KUMA_PASSWORD"]]]

\* the process as the operating system starts it
Started(env, transport) ==
    [phase |-> "main", env |-> env, transport |-> transport, config |-> EmptyObject,
     isAuthenticated |-> FALSE, exitCode |-> -1, stderr |-> ""]

Exited(p, code, stderr) ==
    [p EXCEPT !.phase = "exited", !.exitCode = code, !.stderr = stderr]

ServerInit ==
    /\ ClientInit
    /\ heap = NoHeap
    /\ proc \in { Started(env, transport) : env \in Envs, transport \in Transports }

\* main(): validateEnvironment() ends the process
MainExit ==
    /\ proc.phase = "main"
    /\ validateEnvironment(proc.env).exit
    /\ proc' = Exited(proc, 1, validateEnvironment(proc.env).stderr)
    /\ UNCHANGED clientVars

\* main(): the configuration is complete; createServer() makes the client and
\* awaits client.connect()
MainCreateServer ==
    /\ proc.phase = "main"
    /\ ~validateEnvironment(proc.env).exit
    /\ Connect
    /\ proc' = [proc EXCEPT !.phase = "connect",
                            !.config = validateEnvironment(proc.env).config]

\* a settled promise that createServer awaits: its continuation runs before
\* any other event is handled
ContinuationPending ==
    \/ proc.phase = "connect" /\ sockets[socket].promise # "pending"
    \/ proc.phase = "login" /\ logins[Len(logins)].state # "pending"

\* variant: the failure is logged and the server is returned all the same
FatalServes(p, msg) == [p EXCEPT !.phase = "serving"]

\* the McpError thrown by createServer: process.exit(1) in runStdio's catch;
\* runHttp and main() do not catch it, so under streamable-http the rejection
\* of main() is unhandled, which ends the process with code 1 as well, before
\* app.listen is reached
Fatal(p, msg) == Exited(p, 1, "Failed to authenticate with Uptime Kuma: " \o msg)

\* createServer after await client.connect(): login with the configured
\* credentials, or the failure is thrown on
AfterConnect ==
    /\ proc.phase = "connect"
    /\ sockets[socket].promise # "pending"
    /\ IF sockets[socket].promise = "resolved"
       THEN /\ Login(<<proc.config.username, proc.config.password>>)
            /\ proc' = [proc EXCEPT !.phase = "login"]
       ELSE /\ proc' = Fatal(proc, sockets[socket].error)
            /\ UNCHANGED clientVars

\* variant: the server is returned without the flag being set
AuthenticatedUnmarked(p) == [p EXCEPT !.phase = "serving"]

\* isAuthenticated = true; the server is returned and connected to a transport
Authenticated(p) == [p EXCEPT !.phase = "serving", !.isAuthenticated = TRUE]

\* createServer after await client.login(): isAuthenticated = true, the tools
\* and the signal handlers are registered
AfterLogin ==
    /\ proc.phase = "login"
    /\ logins[Len(logins)].state # "pending"
    /\ proc' = IF logins[Len(logins)].state = "resolved"
               THEN Authenticated(proc)
               ELSE Fatal(proc, logins[Len(logins)].msg)
    /\ UNCHANGED clientVars

\* SIGINT / SIGTERM: client.disconnect(); process.exit(0)
Signal ==
    /\ proc.phase = "serving"
    /\ Disconnect
    /\ proc' = Exited(proc, 0, proc.stderr)

----------------------------------------------------------------------------
(* The monitor tools of src/src/server.ts and filterMonitorFields *)

CoreFields == {"id", "name", "type", "interval", "retryInterval", "resendInterval",
               "maxretries", "active", "pathName", "maintenance"}

OptionalFields == {"url", "method", "hostname", "port", "tags", "notificationIDList",
                   "accepted_statuscodes_json", "conditions"}

\* variant: the optional fields are left out
filterMonitorFieldsCore(monitor) ==
    [f \in CoreFields |-> IF f \in DOMAIN monitor THEN monitor[f] ELSE Undefined]

\* filterMonitorFields(monitor): the ten core properties are always set, to
\* undefined when the monitor lacks them; an optional property is set when it
\* is not undefined on the monitor
filterMonitorFields(monitor) ==
    [f \in CoreFields \cup (OptionalFields \cap DOMAIN monitor) |->
        IF f \in DOMAIN monitor THEN monitor[f] ELSE Undefined]

\* monitors as the upstream sends them to the adapter: an http monitor, with
\* fields beyond the eighteen of the base schema, and a ping monitor
HttpMonitor(i) ==
    [id |-> i, name |-> "monitor " \o toString(i), type |-> "http", interval |-> 60,
     retryInterval |-> 60, resendInterval |-> 0, maxretries |-> 1, active |-> TRUE,
     pathName |-> PathName(i), maintenance |-> FALSE,
     url |-> "https://example.com", method |-> "GET", tags |-> <<>>,
     notificationIDList |-> [k \in {"1"} |-> TRUE],
     accepted_statuscodes_json |-> "[\"200-299\"]", conditions |-> <<>>,
     timeout |-> 48, basic_auth_user |-> "probe", basic_auth_pass |-> "hunter2"]

PingMonitor(i) ==
    [id |-> i, name |-> "monitor " \o toString(i), type |-> "ping", interval |-> 60,
     retryInterval |-> 60, resendInterval |-> 0, maxretries |-> 1, active |-> TRUE,
     pathName |-> PathName(i), maintenance |-> FALSE,
     hostname |-> "db.internal", port |-> 5432, packetSize |-> 56]

\* payloads of monitorList and updateMonitorIntoList in the adapter: no
\* monitor, monitor 1 (http), monitor MaxId (ping), both, or a partial object
\* for monitor 1
ServerMonitorLists ==
    { EmptyObject,
      [k \in {toString(1)} |-> HttpMonitor(1)],
      [k \in {toString(MaxId)} |-> PingMonitor(MaxId)],
      [k \in {toString(1), toString(MaxId)} |->
          IF k = toString(1) THEN HttpMonitor(1) ELSE PingMonitor(MaxId)],
      [k \in {toString(1)} |-> PartialMonitor] }

ServerMonitorList ==
    \E m \in ServerMonitorLists : Push(socket, "monitorList", <<m>>)

ServerUpdateMonitorIntoList ==
    \E m \in ServerMonitorLists : Push(socket, "updateMonitorIntoList", <<m>>)

\* arguments of the two monitor tools; includeAdditionalFields is optional
IncludeArgs == { EmptyObject, [includeAdditionalFields |-> FALSE],
                 [includeAdditionalFields |-> TRUE] }

GetMonitorToolArgs ==
    { [f \in {"monitorID"} \cup DOMAIN a |->
          IF f = "monitorID" THEN i ELSE a[f]] : i \in Ids, a \in IncludeArgs }

\* variant: every field is returned unless the caller says otherwise
IncludeByDefault(args) ==
    ~Has(args, "includeAdditionalFields") \/ args.includeAdditionalFields

\* includeAdditionalFields ?? false
IncludeAdditionalFields(args) ==
    Has(args, "includeAdditionalFields") /\ args.includeAdditionalFields

\* throw new McpError(ErrorCode.InternalError, message)
McpError(message) == [threw |-> TRUE, value |-> [message |-> message]]

\* the handler of the getMonitor tool; its value is structuredContent
getMonitorTool(args) ==
    IF ~proc.isAuthenticated THEN McpError("Not authenticated with Uptime Kuma")
    ELSE LET monitor == getMonitor(args.monitorID)
         IN IF monitor = Undefined
            THEN McpError("Failed to get monitor: Monitor with ID "
                              \o toString(args.monitorID) \o " not found")
            ELSE Value([monitor |-> IF IncludeAdditionalFields(args) THEN monitor
                                    ELSE filterMonitorFields(monitor)])

\* the handler of the listMonitors tool: Object.values(monitorList).map(...)
listMonitorsTool(args) ==
    IF ~proc.isAuthenticated THEN McpError("Not authenticated with Uptime Kuma")
    ELSE LET keys == OwnKeys(getMonitorList)
             monitors == [j \in 1..Len(keys) |->
                             IF IncludeAdditionalFields(args) THEN getMonitorList[keys[j]]
                             ELSE filterMonitorFields(getMonitorList[keys[j]])]
         IN Value([monitors |-> monitors, count |-> Len(monitors)])

\* error.message of the TypeError of pathName.toLowerCase() on a monitor
\* without pathName
ToLowerCaseOfUndefined == "Cannot read properties of undefined (reading 'toLowerCase')"

KeywordToolArgs == { EmptyObject, [keywords |-> <<"p", "r", "o", "d">>] }

\* the handler of the getMonitorSummary tool
getMonitorSummaryTool(args) ==
    IF ~proc.isAuthenticated THEN McpError("Not authenticated with Uptime Kuma")
    ELSE LET summaries ==
                 getMonitorSummary(IF Has(args, "keywords") THEN <<args.keywords>> ELSE <<>>)
         IN IF summaries.threw
            THEN McpError("Failed to get monitor summary: " \o ToLowerCaseOfUndefined)
            ELSE Value([summaries |-> summaries.value, count |-> Len(summaries.value)])

MaxHeartbeatsToolArgs == { EmptyObject, [maxHeartbeats |-> 3] }

HeartbeatsToolArgs ==
    { [f \in {"monitorID"} \cup DOMAIN a |->
          IF f = "monitorID" THEN i ELSE a[f]] : i \in Ids, a \in MaxHeartbeatsToolArgs }

\* maxHeartbeats ?? 1
Count(args) == IF Has(args, "maxHeartbeats") THEN args.maxHeartbeats ELSE 1

\* variant: an unknown monitor id is an error of the getHeartbeats tool
getHeartbeatsToolStrict(args) ==
    IF ~proc.isAuthenticated THEN McpError("Not authenticated with Uptime Kuma")
    ELSE IF toString(args.monitorID) \notin DOMAIN heartbeatListCache
         THEN McpError("Failed to get heartbeats: Monitor with ID "
                           \o toString(args.monitorID) \o " not found")
         ELSE LET heartbeatsArray == getHeartbeatsForMonitor(args.monitorID, Count(args))
              IN Value([monitorID |-> args.monitorID, heartbeats |-> heartbeatsArray,
                        count |-> Len(heartbeatsArray)])

\* the handler of the getHeartbeats tool
getHeartbeatsTool(args) ==
    IF ~proc.isAuthenticated THEN McpError("Not authenticated with Uptime Kuma")
    ELSE LET heartbeatsArray == getHeartbeatsForMonitor(args.monitorID, Count(args))
         IN Value([monitorID |-> args.monitorID, heartbeats |-> heartbeatsArray,
                   count |-> Len(heartbeatsArray)])

\* Object.values(heartbeatList).reduce((sum, heartbeats) => sum + heartbeats.length, 0)
RECURSIVE TotalCount(_, _)
TotalCount(heartbeatList, keys) ==
    IF keys = <<>> THEN 0
    ELSE Len(heartbeatList[Head(keys)]) + TotalCount(heartbeatList, Tail(keys))

\* the handler of the listHeartbeats tool
listHeartbeatsTool(args) ==
    IF ~proc.isAuthenticated THEN McpError("Not authenticated with Uptime Kuma")
    ELSE LET heartbeatList == getHeartbeatList(Count(args))
         IN Value([heartbeats |-> heartbeatList,
                   monitorCount |-> Cardinality(DOMAIN heartbeatList),
                   totalHeartbeatCount |-> TotalCount(heartbeatList, OwnKeys(heartbeatList))])

\* a tools/call request is served once createServer has returned and the
\* transport is connected
Tool(op, args, result) ==
    /\ proc.phase = "serving"
    /\ lastEvent' = Returned(op, args, result)
    /\ UNCHANGED <<socket, sockets, monitorListCache, heartbeatListCache, logins,
                   deleted, nPush, nOps, proc>>

CallGetMonitor ==
    \E args \in GetMonitorToolArgs : Tool("tool.getMonitor", args, getMonitorTool(args))

CallListMonitors ==
    \E args \in IncludeArgs : Tool("tool.listMonitors", args, listMonitorsTool(args))

CallGetMonitorSummary ==
    \E args \in KeywordToolArgs :
        Tool("tool.getMonitorSummary", args, getMonitorSummaryTool(args))

CallGetHeartbeats ==
    \E args \in HeartbeatsToolArgs : Tool("tool.getHeartbeats", args, getHeartbeatsTool(args))

CallListHeartbeats ==
    \E args \in MaxHeartbeatsToolArgs :
        Tool("tool.listHeartbeats", args, listHeartbeatsTool(args))

Tools == {"tool.getMonitor", "tool.listMonitors", "tool.getMonitorSummary",
          "tool.getHeartbeats", "tool.listHeartbeats"}

\* the process runs and no continuation of createServer is due
Running == proc.phase \in {"connect", "login", "serving"} /\ ~ContinuationPending

ServerNext ==
    \/ MainExit /\ UNCHANGED <<running, heap>>
    \/ MainCreateServer /\ UNCHANGED <<running, heap>>
    \/ AfterConnect /\ UNCHANGED <<running, heap>>
    \/ AfterLogin /\ UNCHANGED <<running, heap>>
    \/ Signal /\ UNCHANGED <<running, heap>>
    \/ Running /\ SocketConnect(socket) /\ UNCHANGED <<proc, running, heap>>
    \/ Running /\ SocketConnectError(socket) /\ UNCHANGED <<proc, running, heap>>
    \/ Running /\ SocketDrop(socket) /\ UNCHANGED <<proc, running, heap>>
    \/ \E l \in 1..Len(logins), response \in LoginResponses :
          Running /\ LoginAck(l, response) /\ UNCHANGED <<proc, running, heap>>
    \/ Running /\ ServerMonitorList /\ UNCHANGED <<proc, running, heap>>
    \/ Running /\ ServerUpdateMonitorIntoList /\ UNCHANGED <<proc, running, heap>>
    \/ Running /\ PushDeleteMonitorFromList(socket) /\ UNCHANGED <<proc, running, heap>>
    \/ Running /\ PushHeartbeatList(socket) /\ UNCHANGED <<proc, running, heap>>
    \/ Running /\ PushHeartbeat(socket) /\ UNCHANGED <<proc, running, heap>>
    \/ CallGetMonitor /\ UNCHANGED <<running, heap>>
    \/ CallListMonitors /\ UNCHANGED <<running, heap>>
    \/ CallGetMonitorSummary /\ UNCHANGED <<running, heap>>
    \/ CallGetHeartbeats /\ UNCHANGED <<running, heap>>
    \/ CallListHeartbeats /\ UNCHANGED <<running, heap>>

ServerSpec == ServerInit /\ [][ServerNext]_vars

TypeOK ==
    /\ socket \in 0..MaxConnects
    /\ Len(sockets) <= MaxConnects
    /\ DOMAIN monitorListCache \subseteq Keys
    /\ DOMAIN heartbeatListCache \subseteq Keys
    /\ nPush \in 0..MaxPush
    /\ nOps \in 0..MaxOps

----------------------------------------------------------------------------
(* Properties *)

IsPush(ev) == ev.op \in PushEvents

\* the heartbeat of the last 'heartbeat' event
LastHeartbeat == lastEvent.args[1]

\* the payload of the last monitorList / updateMonitorIntoList event
LastMonitors == lastEvent.args[1]

\* C1: right after the heartbeat handler has run on a heartbeat that carries
\* monitorID, the stored sequence of that monitor has at most 100 entries and
\* the heartbeat is at index 0.
C1_HeartbeatPrependedAndCapped ==
    (lastEvent.op = "heartbeat" /\ lastEvent.calls >= 1 /\ Has(LastHeartbeat, "monitorID")) =>
        LET k == toString(LastHeartbeat.monitorID)
        IN /\ k \in DOMAIN heartbeatListCache
           /\ Len(heartbeatListCache[k]) <= HeartbeatLimit
           /\ Len(heartbeatListCache[k]) >= 1
           /\ heartbeatListCache[k][1] = LastHeartbeat

\* a heartbeat was pushed onto a sequence that was already at or over the
\* limit: the oldest entry, of time 1, is gone
C1_Witness ==
    /\ lastEvent.op = "heartbeat" /\ lastEvent.calls >= 1
    /\ Has(LastHeartbeat, "monitorID")
    /\ LET k == toString(LastHeartbeat.monitorID)
       IN /\ k \in DOMAIN heartbeatListCache
          /\ Len(heartbeatListCache[k]) = HeartbeatLimit
          /\ heartbeatListCache[k][1] = LastHeartbeat
          /\ heartbeatListCache[k][HeartbeatLimit].time > 1

\* C2: in every reachable state the stored history of every monitor has at
\* most 100 entries, whatever push events were delivered.
C2_HistoryNeverOverLimit ==
    \A k \in DOMAIN heartbeatListCache : Len(heartbeatListCache[k]) <= HeartbeatLimit

C4_DeletedStaysAbsent ==
    /\ \A x \in deleted :
          /\ getMonitor(x) = Undefined
          /\ toString(x) \notin DOMAIN getMonitorList
    /\ (lastEvent.op = "deleteMonitorFromList" /\ lastEvent.calls >= 1
            /\ Len(lastEvent.args) = 1) =>
          LET old == lastEvent.before.monitors
              key == toString(lastEvent.args[1])
          IN /\ ~lastEvent.threw
             /\ lastEvent.args[1] \in deleted
             /\ DOMAIN monitorListCache = DOMAIN old \ {key}
             /\ \A k \in DOMAIN old \ {key} : monitorListCache[k] = old[k]

\* a cached id was deleted and another record remained
C4_Witness ==
    /\ lastEvent.op = "deleteMonitorFromList" /\ lastEvent.calls >= 1
    /\ Len(lastEvent.args) = 1
    /\ toString(lastEvent.args[1]) \in DOMAIN lastEvent.before.monitors
    /\ lastEvent.args[1] \in deleted
    /\ monitorListCache # EmptyObject

\* C5: after disconnect() both query results are empty, the handle is null and
\* the channel the handle named has none of the five listeners.
C5_DisconnectClears ==
    lastEvent.op = "disconnect" =>
        /\ getMonitorList = EmptyObject
        /\ getHeartbeatList(1) = EmptyObject
        /\ getHeartbeatList(HeartbeatLimit) = EmptyObject
        /\ socket = NoSocket
        /\ lastEvent.chan # NoSocket =>
              /\ \A e \in PushEvents : sockets[lastEvent.chan].listeners[e] = 0
              /\ ~sockets[lastEvent.chan].connected

\* disconnect() ran with both caches populated and a channel held
C5_Witness ==
    /\ lastEvent.op = "disconnect"
    /\ lastEvent.chan # NoSocket
    /\ lastEvent.before.monitors # EmptyObject
    /\ lastEvent.before.heartbeats

\* C6: every disconnect() call raises nothing and ends with no handle and empty
\* caches; a call right after another changes nothing.
C6_DisconnectIdempotent ==
    [][lastEvent'.op = "disconnect" =>
          /\ ~lastEvent'.threw
          /\ socket' = NoSocket
          /\ monitorListCache' = EmptyObject
          /\ heartbeatListCache' = EmptyObject
          /\ lastEvent.op = "disconnect" =>
                UNCHANGED <<socket, sockets, monitorListCache, heartbeatListCache, logins>>]_vars

\* disconnect() ran on a handle already released by an earlier disconnect(),
\* while a login was in flight
C6_Witness ==
    /\ lastEvent.op = "disconnect"
    /\ lastEvent.chan = NoSocket
    /\ \E l \in 1..Len(logins) : logins[l].state = "pending"

\* the owner id of a heartbeat under either field name
OwnerId(hb) == IF Has(hb, "monitorID") THEN hb.monitorID ELSE hb.monitor_id

\* C7: a heartbeat carrying its owner id under monitorID or under monitor_id is
\* at index 0 of the stored sequence of that monitor once the handler has run.
C7_BothNamesIndexed ==
    (lastEvent.op = "heartbeat" /\ lastEvent.calls >= 1
        /\ (Has(LastHeartbeat, "monitorID") \/ Has(LastHeartbeat, "monitor_id"))) =>
        LET k == toString(OwnerId(LastHeartbeat))
        IN /\ k \in DOMAIN heartbeatListCache
           /\ Len(heartbeatListCache[k]) >= 1
           /\ heartbeatListCache[k][1] = LastHeartbeat

\* C8: a heartbeat event without an owner id raises nothing and changes
\* neither cache.
C8_HeartbeatWithoutIdDropped ==
    [][(lastEvent'.op = "heartbeat"
          /\ ~Has(lastEvent'.args[1], "monitorID")
          /\ ~Has(lastEvent'.args[1], "monitor_id")) =>
          /\ ~lastEvent'.threw
          /\ UNCHANGED <<monitorListCache, heartbeatListCache>>]_vars

\* the handler ran on a heartbeat without id while the heartbeat cache held data
C8_Witness ==
    /\ lastEvent.op = "heartbeat" /\ lastEvent.calls >= 1
    /\ ~Has(LastHeartbeat, "monitorID") /\ ~Has(LastHeartbeat, "monitor_id")
    /\ \E k \in DOMAIN heartbeatListCache : Len(heartbeatListCache[k]) >= 1

\* C9: every login request was emitted with all five listeners registered,
\* and a push event arriving on a channel a login request went out on is
\* handled.
C9_ListenersBeforeLogin ==
    /\ \A l \in 1..Len(logins) :
          logins[l].emitted => \A e \in PushEvents : logins[l].listenersAtEmit[e] >= 1
    /\ (IsPush(lastEvent)
           /\ \E l \in 1..Len(logins) : logins[l].emitted /\ logins[l].chan = lastEvent.chan)
          => lastEvent.calls >= 1

\* a push event was handled while the login acknowledgement was outstanding
C9_Witness ==
    /\ lastEvent.op = "monitorList" /\ lastEvent.calls >= 1
    /\ monitorListCache # EmptyObject
    /\ \E l \in 1..Len(logins) :
          logins[l].emitted /\ logins[l].chan = lastEvent.chan /\ logins[l].state = "pending"

\* C10: login() with no handle or on a channel that is not connected is
\* rejected at once with 'Not connected to server'; nothing is emitted, no
\* listener is registered and the caches are unchanged.
C10_LoginNotConnected ==
    [][(lastEvent'.op = "login" /\ (socket = NoSocket \/ ~sockets[socket].connected)) =>
          /\ Len(logins') = Len(logins) + 1
          /\ SubSeq(logins', 1, Len(logins)) = logins
          /\ logins'[Len(logins')].state = "rejected"
          /\ logins'[Len(logins')].msg = "Not connected to server"
          /\ ~logins'[Len(logins')].emitted
          /\ UNCHANGED <<socket, sockets, monitorListCache, heartbeatListCache>>]_vars

\* login() was rejected on a channel that had lost its connection, with data
\* in the cache
C10_Witness ==
    /\ lastEvent.op = "login"
    /\ lastEvent.chan # NoSocket
    /\ ~sockets[lastEvent.chan].connected
    /\ logins[Len(logins)].msg = "Not connected to server"
    /\ monitorListCache # EmptyObject

\* C11: an acknowledgement settles exactly the pending login it answers:
\* resolved with the acknowledgement if ok, else rejected with its msg, or with
\* 'Login failed' when it has none (an empty msg counts as none); a settled
\* login never changes again.
C11_LoginOutcome ==
    [][/\ \A l \in 1..Len(logins) :
             logins[l].state # "pending" => logins'[l] = logins[l]
       /\ lastEvent'.op = "login.ack" =>
             LET r == lastEvent'.args[1]
             IN \E l \in 1..Len(logins) :
                   /\ logins[l].state = "pending"
                   /\ \A m \in 1..Len(logins) \ {l} : logins'[m] = logins[m]
                   /\ r.ok <=> logins'[l].state = "resolved"
                   /\ r.ok => logins'[l].value = r
                   /\ ~r.ok =>
                         /\ logins'[l].state = "rejected"
                         /\ logins'[l].msg = IF Has(r, "msg") /\ r.msg # ""
                                              THEN r.msg ELSE "Login failed"]_vars

\* a login was rejected by an acknowledgement that carries no msg
C11_Witness ==
    /\ lastEvent.op = "login.ack"
    /\ ~lastEvent.args[1].ok /\ ~Has(lastEvent.args[1], "msg")
    /\ \E l \in 1..Len(logins) :
          logins[l].state = "rejected" /\ logins[l].msg = "Login failed"

\* C12: a configuration with username "" and password "key123" reaches the
\* login request: the process does not end before a channel is opened.
C12_EmptyUsernameReachesLogin ==
    (/\ ~Falsy(proc.env, "UPTIME_KUMA_URL")
     /\ "UPTIME_KUMA_USERNAME" \in DOMAIN proc.env
     /\ proc.env["UPTIME_KUMA_USERNAME"] = ""
     /\ ~Falsy(proc.env, "UPTIME_KUMA_PASSWORD"))
    => ~(proc.phase = "exited" /\ sockets = <<>>)

\* C13: the promise of connect() is settled by the first 'connect' (resolved)
\* or 'connect_error' (rejected with 'Connection failed: ...') signal of its
\* channel and by nothing else, and once settled it never changes.
C13_ConnectSettlesOnce ==
    [][\A c \in 1..Len(sockets) :
          LET old == sockets[c]
              new == sockets'[c]
              signalled(op) == lastEvent'.op = op /\ lastEvent'.chan = c
          IN /\ old.promise # "pending" =>
                   new.promise = old.promise /\ new.error = old.error
             /\ old.promise = "pending" =>
                   /\ signalled("socket.connect") => new.promise = "resolved"
                   /\ signalled("socket.connect_error") =>
                         /\ new.promise = "rejected"
                         /\ new.error = "Connection failed: " \o lastEvent'.args[1]
                   /\ ~signalled("socket.connect") /\ ~signalled("socket.connect_error")
                         => new.promise = "pending"]_vars

\* a channel became established after its connect() had been rejected
C13_Witness ==
    /\ lastEvent.op = "socket.connect"
    /\ sockets[lastEvent.chan].promise = "rejected"
    /\ sockets[lastEvent.chan].error = "Connection failed: xhr poll error"
    /\ sockets[lastEvent.chan].connected

\* C14: no query call raises an error, whatever the push events have put in
\* the caches.
C14_QueriesNeverThrow == lastEvent.op \in Queries => ~lastEvent.threw

\* C15: getMonitor(id) returns the cached record of id, or undefined when id is
\* not a key of the monitor cache, raises nothing and leaves the caches as
\* they were.
C15_GetMonitorLookup ==
    [][lastEvent'.op = "getMonitor" =>
          LET key == toString(lastEvent'.params[1])
          IN /\ ~lastEvent'.threw
             /\ lastEvent'.returned = IF key \in DOMAIN monitorListCache
                                      THEN monitorListCache[key] ELSE Undefined
             /\ UNCHANGED <<monitorListCache, heartbeatListCache>>]_vars

\* a miss on a cache that holds other monitors
C15_Witness ==
    /\ lastEvent.op = "getMonitor"
    /\ lastEvent.returned = Undefined
    /\ monitorListCache # EmptyObject

\* C16: getHeartbeatsForMonitor(id, k) returns the first min(k, n) of the n
\* stored heartbeats of id in stored order, at most one when k is omitted, and
\* the empty sequence when nothing is stored under id.
C16_TruncationOnRead ==
    lastEvent.op = "getHeartbeatsForMonitor" =>
        LET key == toString(lastEvent.params[1])
            k == IF Len(lastEvent.params) >= 2 THEN lastEvent.params[2] ELSE 1
            stored == IF key \in DOMAIN heartbeatListCache
                      THEN heartbeatListCache[key] ELSE <<>>
            m == IF k < Len(stored) THEN k ELSE Len(stored)
        IN /\ ~lastEvent.threw
           /\ Len(lastEvent.returned) = m
           /\ \A j \in 1..m : lastEvent.returned[j] = stored[j]

\* three heartbeats were asked of a monitor with ten or more, and the three
\* most recent came back
C16_Witness ==
    /\ lastEvent.op = "getHeartbeatsForMonitor"
    /\ Len(lastEvent.params) = 2 /\ lastEvent.params[2] = 3
    /\ toString(lastEvent.params[1]) \in DOMAIN heartbeatListCache
    /\ Len(heartbeatListCache[toString(lastEvent.params[1])]) >= 10
    /\ Len(lastEvent.returned) = 3
    /\ lastEvent.returned[1].time > lastEvent.returned[3].time

\* C17: getHeartbeatList(k) returns, for exactly the keys of the heartbeat
\* cache, the first min(k, n) entries of each stored sequence in stored order;
\* at most one each when k is omitted.
C17_HeartbeatListTruncated ==
    lastEvent.op = "getHeartbeatList" =>
        LET k == IF Len(lastEvent.params) >= 1 THEN lastEvent.params[1] ELSE 1
        IN /\ ~lastEvent.threw
           /\ DOMAIN lastEvent.returned = DOMAIN heartbeatListCache
           /\ \A key \in DOMAIN heartbeatListCache :
                 LET stored == heartbeatListCache[key]
                     m == IF k < Len(stored) THEN k ELSE Len(stored)
                 IN /\ Len(lastEvent.returned[key]) = m
                    /\ \A j \in 1..m : lastEvent.returned[key][j] = stored[j]

\* k omitted, two monitors with ten or more heartbeats each, one came back for
\* each
C17_Witness ==
    /\ lastEvent.op = "getHeartbeatList"
    /\ lastEvent.params = <<>>
    /\ Cardinality(DOMAIN heartbeatListCache) >= 2
    /\ \A key \in DOMAIN heartbeatListCache :
          /\ Len(heartbeatListCache[key]) >= 10
          /\ lastEvent.returned[key] = <<heartbeatListCache[key][1]>>

\* C18: no key of the result of getHeartbeatList(k), k positive, maps to an
\* empty sequence.
C18_NoEmptySequences ==
    (lastEvent.op = "getHeartbeatList" /\ ~lastEvent.threw) =>
        \A key \in DOMAIN lastEvent.returned : Len(lastEvent.returned[key]) > 0

IsEntryOf(entry, monitor) ==
    \A f \in {"id", "name", "pathName", "active", "maintenance"} :
        /\ f \in DOMAIN entry <=> f \in DOMAIN monitor
        /\ f \in DOMAIN monitor => entry[f] = monitor[f]

\* C19: the result of getMonitorSummary(keywords) holds one entry for each
\* cached monitor whose pathName contains, case-insensitively, every
\* white-space separated token of keywords, and for every cached monitor when
\* keywords is omitted.  Of 'prod/api' (1) and 'prod/web' (2), "prod api" in
\* either order keeps only 1, "prod" keeps both, "staging" keeps neither.
C19_SummaryFilter ==
    (lastEvent.op = "getMonitorSummary" /\ ~lastEvent.threw) =>
        LET args == lastEvent.params
            result == lastEvent.returned
            tokens == split(trim(args[1]))
            Included(key) ==
                \/ Len(args) = 0
                \/ \A t \in 1..Len(tokens) :
                      includes(toLowerCase(monitorListCache[key].pathName),
                               toLowerCase(tokens[t]))
            ids == { result[j].id : j \in { i \in 1..Len(result) : Has(result[i], "id") } }
            both == {"1", "2"} \subseteq DOMAIN monitorListCache
        IN /\ \A key \in DOMAIN monitorListCache :
                 Included(key) <=>
                    \E j \in 1..Len(result) : IsEntryOf(result[j], monitorListCache[key])
           /\ Len(result) = Cardinality({ key \in DOMAIN monitorListCache : Included(key) })
           /\ (both /\ args \in { <<<<"p", "r", "o", "d", " ", "a", "p", "i">>>>,
                                  <<<<"A", "P", "I", " ", " ", "p", "r", "o", "d">>>> })
                 => ids \cap {1, 2} = {1}
           /\ (both /\ args = <<<<"p", "r", "o", "d">>>>) => ids \cap {1, 2} = {1, 2}
           /\ (both /\ args = <<<<"s", "t", "a", "g", "i", "n", "g">>>>) => ids \cap {1, 2} = {}

\* 'prod/api' and 'prod/web' are cached and "API  prod" returned only the first
C19_Witness ==
    /\ lastEvent.op = "getMonitorSummary" /\ ~lastEvent.threw
    /\ lastEvent.params = <<<<"A", "P", "I", " ", " ", "p", "r", "o", "d">>>>
    /\ {"1", "2"} \subseteq DOMAIN monitorListCache
    /\ Len(lastEvent.returned) = 1
    /\ lastEvent.returned[1].pathName = <<"p", "r", "o", "d", "/", "a", "p", "i">>

\* C20: an entry of getMonitorSummary carries the status and msg of the
\* heartbeat stored at index 0 for its monitor, and neither field when nothing
\* is stored; a summary taken right after an incremental heartbeat of a monitor
\* shows that heartbeat's status and msg.
C20_SummaryShowsLatest ==
    [][(lastEvent'.op = "getMonitorSummary" /\ ~lastEvent'.threw) =>
          LET result == lastEvent'.returned
              entries == { j \in 1..Len(result) : Has(result[j], "id") }
          IN /\ \A j \in entries :
                   LET key == toString(result[j].id)
                       stored == IF key \in DOMAIN heartbeatListCache
                                 THEN heartbeatListCache[key] ELSE <<>>
                   IN IF Len(stored) > 0
                      THEN /\ Has(result[j], "status") /\ Has(result[j], "msg")
                           /\ result[j].status = stored[1].status
                           /\ result[j].msg = stored[1].msg
                      ELSE ~Has(result[j], "status") /\ ~Has(result[j], "msg")
             /\ (/\ lastEvent.op = "heartbeat" /\ lastEvent.calls >= 1
                 /\ Has(LastHeartbeat, "monitorID")) =>
                   \A j \in entries :
                      result[j].id = LastHeartbeat.monitorID =>
                         /\ result[j].status = LastHeartbeat.status
                         /\ result[j].msg = LastHeartbeat.msg]_vars

\* a summary with a monitor that went down with its most recent heartbeat and
\* a monitor without heartbeats
C20_Witness ==
    /\ lastEvent.op = "getMonitorSummary" /\ ~lastEvent.threw
    /\ \E j \in 1..Len(lastEvent.returned) :
          /\ Has(lastEvent.returned[j], "status")
          /\ lastEvent.returned[j].status = 0 /\ lastEvent.returned[j].msg = "timeout"
          /\ Has(lastEvent.returned[j], "id")
          /\ Len(heartbeatListCache[toString(lastEvent.returned[j].id)]) >= 10
    /\ \E j \in 1..Len(lastEvent.returned) : ~Has(lastEvent.returned[j], "status")

\* C21 as stated: the entries of getMonitorSummary follow the order in which
\* the monitor ids were inserted into the cache: after an
\* updateMonitorIntoList event has added new ids to the cache, the entries of
\* the ids that were already cached come before the entries of the new ids.
C21_SummaryInInsertionOrder ==
    [][(/\ lastEvent.op = "updateMonitorIntoList" /\ lastEvent.calls >= 1
        /\ lastEvent'.op = "getMonitorSummary" /\ ~lastEvent'.threw) =>
          LET old == DOMAIN lastEvent.before.monitors
              new == DOMAIN LastMonitors \ old
              result == lastEvent'.returned
          IN \A j1, j2 \in 1..Len(result) :
                (/\ Has(result[j1], "id") /\ toString(result[j1].id) \in old
                 /\ Has(result[j2], "id") /\ toString(result[j2].id) \in new)
                    => j1 < j2]_vars

\* C21 amended: the entries of getMonitorSummary are in ascending numeric order
\* of the cache keys, whatever the order in which the ids were inserted: after
\* monitor 1 has been added to a cache that held monitor 2, the summary of
\* both lists 1 before 2.
C21_SummaryInKeyOrder ==
    [][(lastEvent'.op = "getMonitorSummary" /\ ~lastEvent'.threw) =>
          LET result == lastEvent'.returned
              ByKey(j) == CHOOSE key \in DOMAIN monitorListCache :
                              Cardinality({ o \in DOMAIN monitorListCache :
                                            \E d1, d2 \in 1..Len(Digits) :
                                               /\ Digits[d1] = o /\ Digits[d2] = key
                                               /\ d1 <= d2 }) = j
          IN /\ \A j1, j2 \in 1..Len(result) :
                   (Has(result[j1], "id") /\ Has(result[j2], "id") /\ j1 < j2)
                       => result[j1].id < result[j2].id
             /\ lastEvent'.params = <<>> =>
                   /\ Len(result) = Cardinality(DOMAIN monitorListCache)
                   /\ \A j \in 1..Len(result) :
                         IsEntryOf(result[j], monitorListCache[ByKey(j)])
             /\ (/\ lastEvent.op = "updateMonitorIntoList" /\ lastEvent.calls >= 1
                 /\ DOMAIN lastEvent.before.monitors = {"2"}
                 /\ DOMAIN LastMonitors = {"1"} /\ Has(LastMonitors["1"], "id")
                 /\ lastEvent'.params = <<>>) =>
                   /\ Len(result) = 2
                   /\ result[1].id = 1 /\ result[2].id = 2]_vars

\* a summary without keywords, taken after two push events, lists monitor 1
\* and then monitor 2
C21_Witness ==
    /\ lastEvent.op = "getMonitorSummary" /\ ~lastEvent.threw
    /\ lastEvent.params = <<>>
    /\ Len(lastEvent.returned) = 2
    /\ Has(lastEvent.returned[1], "id") /\ lastEvent.returned[1].id = 1
    /\ Has(lastEvent.returned[2], "id") /\ lastEvent.returned[2].id = 2
    /\ nPush = 2

\* C22: filterMonitorFields(m) has exactly the ten core keys plus those of the
\* eight optional keys that m has, each with the value m has for it (undefined
\* for a core key that m lacks); no other key of m is in it, and the call
\* changes neither m nor the caches.  Seen on the getMonitor tool, which
\* returns filterMonitorFields of the cached record unless
\* includeAdditionalFields is true.
C22_Projection ==
    [][(/\ lastEvent'.op = "tool.getMonitor" /\ ~lastEvent'.threw
        /\ ~(/\ Has(lastEvent'.params, "includeAdditionalFields")
             /\ lastEvent'.params.includeAdditionalFields)) =>
          LET m == monitorListCache[toString(lastEvent'.params.monitorID)]
              filtered == lastEvent'.returned.monitor
              core == {"id", "name", "type", "interval", "retryInterval",
                       "resendInterval", "maxretries", "active", "pathName",
                       "maintenance"}
              optional == {"url", "method", "hostname", "port", "tags",
                           "notificationIDList", "accepted_statuscodes_json",
                           "conditions"}
          IN /\ DOMAIN filtered = core \cup (optional \cap DOMAIN m)
             /\ \A f \in DOMAIN filtered :
                   filtered[f] = IF f \in DOMAIN m THEN m[f] ELSE Undefined
             /\ \A f \in DOMAIN m \ (core \cup optional) : f \notin DOMAIN filtered
             /\ monitorListCache' = monitorListCache
             /\ heartbeatListCache' = heartbeatListCache]_vars

\* the http monitor, which has six optional fields and three further ones, was
\* filtered: url is kept, the credentials are not, hostname is not invented
C22_Witness ==
    /\ lastEvent.op = "tool.getMonitor" /\ ~lastEvent.threw
    /\ ~Has(lastEvent.params, "includeAdditionalFields")
    /\ Has(monitorListCache[toString(lastEvent.params.monitorID)], "basic_auth_pass")
    /\ Has(lastEvent.returned.monitor, "url")
    /\ ~Has(lastEvent.returned.monitor, "basic_auth_pass")
    /\ ~Has(lastEvent.returned.monitor, "hostname")
    /\ Cardinality(DOMAIN lastEvent.returned.monitor) = 16

\* C23: in every reachable state the stored history of every monitor is in
\* strict most-recent-first order of the heartbeats' timestamps, whatever
\* heartbeatList and heartbeat events were delivered.
C23_StrictlyMostRecentFirst ==
    \A k \in DOMAIN heartbeatListCache :
        \A j \in 1..(Len(heartbeatListCache[k]) - 1) :
            heartbeatListCache[k][j].time > heartbeatListCache[k][j + 1].time

\* C24: right after a monitorList event carrying mapping M has been handled,
\* getMonitorList() is exactly M, whatever the cache held before: ids absent
\* from M are gone and nothing of the old mapping is left.
C24_FullListReplaces ==
    (lastEvent.op = "monitorList" /\ lastEvent.calls >= 1) =>
        /\ getMonitorList = lastEvent.args[1]
        /\ \A k \in DOMAIN lastEvent.before.monitors \ DOMAIN lastEvent.args[1] :
              k \notin DOMAIN monitorListCache

\* a full list that lacks a cached id and carries another object for the id
\* it names
C24_Witness ==
    /\ lastEvent.op = "monitorList" /\ lastEvent.calls >= 1
    /\ lastEvent.args[1] # EmptyObject
    /\ \E k \in DOMAIN lastEvent.before.monitors : k \notin DOMAIN lastEvent.args[1]
    /\ \E k \in DOMAIN lastEvent.before.monitors \cap DOMAIN lastEvent.args[1] :
          lastEvent.before.monitors[k] # lastEvent.args[1][k]
    /\ monitorListCache = lastEvent.args[1]

\* C25: a heartbeatList event for monitor X that carries an array sets the
\* stored sequence of X to exactly that array, in the order given, and leaves
\* the stored sequence of every other monitor as it was.
C25_FullHistoryReplaces ==
    [][(/\ lastEvent'.op = "heartbeatList" /\ lastEvent'.calls >= 1
        /\ Len(lastEvent'.args) = 2) =>
          LET X == toString(lastEvent'.args[1])
          IN /\ ~lastEvent'.threw
             /\ X \in DOMAIN heartbeatListCache'
             /\ heartbeatListCache'[X] = lastEvent'.args[2]
             /\ DOMAIN heartbeatListCache' = DOMAIN heartbeatListCache \cup {X}
             /\ \A k \in DOMAIN heartbeatListCache \ {X} :
                   heartbeatListCache'[k] = heartbeatListCache[k]]_vars

\* a history of three heartbeats was stored for one monitor while another
\* monitor has a history of its own
C25_Witness ==
    /\ lastEvent.op = "heartbeatList" /\ lastEvent.calls >= 1
    /\ Len(lastEvent.args) = 2
    /\ Len(lastEvent.args[2]) = 3
    /\ heartbeatListCache[toString(lastEvent.args[1])] = lastEvent.args[2]
    /\ \E k \in DOMAIN heartbeatListCache \ {toString(lastEvent.args[1])} :
          Len(heartbeatListCache[k]) >= 1

\* C26: when the connect() or the login() that createServer awaits is
\* rejected, the process ends with exit code 1, under either transport; the
\* process serves tool calls only with the connect() resolved, the login()
\* resolved and isAuthenticated set.
C26_StartupFailureTerminates ==
    [][/\ (proc.phase = "connect" /\ sockets[socket].promise = "rejected") =>
             (proc'.phase = "exited" /\ proc'.exitCode = 1)
       /\ (proc.phase = "login" /\ logins[Len(logins)].state = "rejected") =>
             (proc'.phase = "exited" /\ proc'.exitCode = 1)
       /\ (proc'.phase = "serving" \/ lastEvent'.op \in Tools) =>
             /\ sockets'[socket'].promise = "resolved"
             /\ Len(logins') = 1 /\ logins'[1].state = "resolved"
             /\ proc'.isAuthenticated]_vars

\* under streamable-http the channel was established and the login was
\* rejected: the process has ended with code 1 and was never authenticated
C26_Witness ==
    /\ proc.phase = "exited" /\ proc.exitCode = 1
    /\ proc.transport = "streamable-http"
    /\ ~proc.isAuthenticated
    /\ socket # NoSocket /\ sockets[socket].promise = "resolved"
    /\ Len(logins) = 1 /\ logins[1].state = "rejected"
    /\ logins[1].msg = "Incorrect username or password."

\* C27: a malformed push event (a heartbeat without an owner id, a
\* heartbeatList event without the array or without the id, a deletion
\* without the id) raises no error in its handler and leaves the monitor cache
\* as it was.
C27_MalformedEventsContained ==
    (/\ lastEvent.op \in PushEvents /\ lastEvent.calls >= 1
     /\ \/ lastEvent.op = "heartbeat"
              /\ ~Has(lastEvent.args[1], "monitorID")
              /\ ~Has(lastEvent.args[1], "monitor_id")
        \/ lastEvent.op = "heartbeatList" /\ Len(lastEvent.args) < 2
        \/ lastEvent.op = "deleteMonitorFromList" /\ Len(lastEvent.args) < 1) =>
        /\ ~lastEvent.threw
        /\ monitorListCache = lastEvent.before.monitors

\* C28: a query runs only when no handler is part-way through its statements,
\* so the cache it reads is never the sequence of 101 entries between the
\* insertion and the truncation nor a mapping with half of an update; and
\* when a handler returns, the caches are what the handler as a whole makes
\* of the caches it started from.
C28_HandlersAtomic ==
    [][/\ (lastEvent'.op \in Queries /\ lastEvent' # lastEvent) =>
             /\ running.at = "idle"
             /\ \A k \in DOMAIN heartbeatListCache :
                   Len(heartbeatListCache[k]) <= HeartbeatLimit
             /\ (lastEvent.op = "updateMonitorIntoList" /\ lastEvent.calls >= 1) =>
                   monitorListCache = ObjectAssign(lastEvent.before.monitors,
                                                   lastEvent.args[1])
       /\ (running.at # "idle" /\ running'.at = "idle") =>
             [monitors |-> monitorListCache', heartbeats |-> heartbeatListCache']
                = Handler(running.event, running.start, running.payload)]_vars

\* a query has read the history of a monitor whose handler put a heartbeat in
\* front of 100 stored ones and dropped the oldest
C28_Witness ==
    /\ lastEvent.op = "getHeartbeatsForMonitor"
    /\ running = Idle
    /\ "1" \in DOMAIN heartbeatListCache
    /\ Len(heartbeatListCache["1"]) = HeartbeatLimit
    /\ heartbeatListCache["1"][1].time = HeartbeatLimit + Extra + 1
    /\ heartbeatListCache["1"][HeartbeatLimit].time = 2
    /\ lastEvent.returned = <<heartbeatListCache["1"][1]>>

\* C29: a call of any of the five queries leaves the monitor cache, the
\* heartbeat cache and the channel handle as they were, and a step that
\* changes a cache is a push event or disconnect().
C29_QueriesReadOnly ==
    [][/\ (lastEvent'.op \in Queries /\ lastEvent' # lastEvent) =>
             /\ monitorListCache' = monitorListCache
             /\ heartbeatListCache' = heartbeatListCache
             /\ socket' = socket
       /\ (monitorListCache' # monitorListCache
              \/ heartbeatListCache' # heartbeatListCache) =>
             lastEvent'.op \in PushEvents \cup {"disconnect"}]_vars

\* getHeartbeatList has returned histories of a session whose two caches are
\* populated
C29_Witness ==
    /\ lastEvent.op = "getHeartbeatList"
    /\ socket # NoSocket
    /\ monitorListCache # EmptyObject
    /\ \E k \in DOMAIN heartbeatListCache :
          /\ Len(heartbeatListCache[k]) >= 1
          /\ Len(lastEvent.returned[k]) >= 1

C31_HistoryCreatedWithMonitor ==
    /\ (lastEvent.op \in {"monitorList", "updateMonitorIntoList"} /\ lastEvent.calls >= 1) =>
          \A k \in DOMAIN lastEvent.args[1] :
              /\ k \in DOMAIN monitorListCache
              /\ k \in DOMAIN heartbeatListCache
    /\ (lastEvent.op = "heartbeatList" /\ lastEvent.calls >= 1 /\ ~lastEvent.threw) =>
          toString(lastEvent.args[1]) \in DOMAIN heartbeatListCache

\* C32: getMonitorList() returns the cache mapping itself: as long as the
\* monitor cache has not been assigned a new object (by a monitorList event or
\* by disconnect()) since the call returned, the mapping the caller holds
\* equals the current monitor cache, updates and deletions included
C32_ReturnedMappingIsLive ==
    (heap.held.op = "getMonitorList" /\ heap.held.at = heap.monitors) =>
        heap.held.now.mapping = monitorListCache

\* a deletion handled after the call changed the mapping the caller holds
C32_Witness ==
    /\ heap.held.op = "getMonitorList"
    /\ heap.held.at = heap.monitors
    /\ lastEvent.op = "deleteMonitorFromList"
    /\ lastEvent.calls >= 1
    /\ ~lastEvent.threw
    /\ heap.held.now # heap.held.returned
    /\ heap.held.now.mapping = monitorListCache

\* C37: what getHeartbeatList(k) and getHeartbeatsForMonitor(id, k) return are
\* new objects: no push event and no disconnect() after the call changes the
\* length, the order or the members of what the caller holds
C37_HeartbeatReadsAreSnapshots ==
    heap.held.op \in {"getHeartbeatList", "getHeartbeatsForMonitor"} =>
        heap.held.now = heap.held.returned

\* the caller holds a non-empty sequence, and a heartbeat event was stored
\* afterwards at the head of the cached history the sequence was cut from
C37_Witness ==
    /\ heap.held.op = "getHeartbeatsForMonitor"
    /\ heap.held.returned.array # <<>>
    /\ lastEvent.op = "heartbeat"
    /\ lastEvent.calls >= 1
    /\ ~lastEvent.threw
    /\ ~MissingMonitorID(LastHeartbeat)
    /\ LET cached == heartbeatListCache[toString(LastHeartbeat.monitorID)]
       IN /\ cached[1] = LastHeartbeat
          /\ Len(cached) > Len(heap.held.returned.array)
          /\ SubSeq(cached, 2, Len(heap.held.returned.array) + 1) = heap.held.returned.array

\* C33: a call of the getMonitor or getHeartbeats tool changes neither cache;
\* for an id the monitor cache does not hold, the client's getMonitor yields
\* undefined and the getMonitor tool fails with 'Failed to get monitor:
\* Monitor with ID <id> not found'; for an id the heartbeat cache does not
\* hold, the getHeartbeats tool returns no heartbeats, count 0 and no error
C33_QueryMissAtTools ==
    [][ LET call == lastEvent'
        IN (call.op \in {"tool.getMonitor", "tool.getHeartbeats"} /\ call # lastEvent) =>
              /\ monitorListCache' = monitorListCache
              /\ heartbeatListCache' = heartbeatListCache
              /\ (/\ call.op = "tool.getMonitor"
                  /\ toString(call.params.monitorID) \notin DOMAIN monitorListCache) =>
                     /\ getMonitor(call.params.monitorID) = Undefined
                     /\ call.threw
                     /\ call.returned.message =
                           "Failed to get monitor: Monitor with ID "
                               \o toString(call.params.monitorID) \o " not found"
              /\ (/\ call.op = "tool.getHeartbeats"
                  /\ toString(call.params.monitorID) \notin DOMAIN heartbeatListCache) =>
                     /\ ~call.threw
                     /\ call.returned = [monitorID |-> call.params.monitorID,
                                         heartbeats |-> <<>>, count |-> 0] ]_vars

\* the getHeartbeats tool was asked for a monitor without a history while
\* another monitor has one, and answered without an error
C33_Witness ==
    /\ lastEvent.op = "tool.getHeartbeats"
    /\ toString(lastEvent.params.monitorID) \notin DOMAIN heartbeatListCache
    /\ heartbeatListCache # EmptyObject
    /\ monitorListCache # EmptyObject
    /\ ~lastEvent.threw
    /\ lastEvent.returned.count = 0

\* C34: a monitorList, updateMonitorIntoList or deleteMonitorFromList event
\* leaves the heartbeat cache as it was, and a heartbeatList or heartbeat
\* event leaves the monitor cache as it was; after a deletion event for a
\* monitor with a stored history, getHeartbeatsForMonitor and getHeartbeatList
\* still return that history
C34_MappingsIndependent ==
    [][ nPush' # nPush =>
          LET ev == lastEvent'
          IN /\ ev.op \in {"monitorList", "updateMonitorIntoList", "deleteMonitorFromList"} =>
                   heartbeatListCache' = heartbeatListCache
             /\ ev.op \in {"heartbeatList", "heartbeat"} =>
                   monitorListCache' = monitorListCache
             /\ \A i \in Ids, n \in {DefaultMaxHeartbeats, 3, HeartbeatLimit} :
                   (/\ ev.op = "deleteMonitorFromList" /\ ev.calls >= 1 /\ ~ev.threw
                    /\ ev.args[1] = i
                    /\ toString(i) \in DOMAIN heartbeatListCache) =>
                      LET stored == Slice(heartbeatListCache[toString(i)], n)
                      IN /\ getHeartbeatsForMonitor(i, n)' = stored
                         /\ toString(i) \in DOMAIN getHeartbeatList(n)'
                         /\ getHeartbeatList(n)'[toString(i)] = stored ]_vars

\* a deletion event was handled for a monitor whose stored history is not
\* empty
C34_Witness ==
    /\ lastEvent.op = "deleteMonitorFromList"
    /\ lastEvent.calls >= 1
    /\ ~lastEvent.threw
    /\ toString(lastEvent.args[1]) \notin DOMAIN monitorListCache
    /\ toString(lastEvent.args[1]) \in DOMAIN heartbeatListCache
    /\ Len(heartbeatListCache[toString(lastEvent.args[1])]) >= 3

\* C35: whatever lifecycle calls were made, no channel has more than one
\* listener per push event, and a heartbeat event that carries a monitor id
\* and is handled puts exactly one entry at the head of that monitor's stored
\* sequence (which is then cut to the limit)
C35_ExactlyOnce ==
    [][ /\ \A c \in 1..Len(sockets'), e \in PushEvents : sockets'[c].listeners[e] <= 1
        /\ (/\ nPush' # nPush
            /\ lastEvent'.op = "heartbeat"
            /\ lastEvent'.calls >= 1
            /\ ~MissingMonitorID(lastEvent'.args[1])) =>
              LET key == toString(lastEvent'.args[1].monitorID)
                  stored == IF key \in DOMAIN heartbeatListCache
                            THEN heartbeatListCache[key] ELSE <<>>
              IN heartbeatListCache'[key] = Truncate(<<lastEvent'.args[1]>> \o stored) ]_vars

\* C36: while the client holds no channel (after disconnect() and before the
\* next connect()), both caches are empty, whatever lifecycle calls preceded
\* the disconnect and whatever push events arrive
C36_EmptyAfterDisconnect ==
    socket = NoSocket => (monitorListCache = EmptyObject /\ heartbeatListCache = EmptyObject)

\* C38: a tool call is answered only with isAuthenticated true and never with
\* 'Not authenticated', also when the channel has been lost since;
\* isAuthenticated becomes true only when the promise of connect() and then
\* that of a login() sent on the connected channel have resolved; once true
\* it stays true
C38_AuthenticationGuard ==
    [][ /\ (lastEvent'.op \in Tools /\ lastEvent' # lastEvent) =>
              /\ proc.isAuthenticated
              /\ lastEvent'.threw =>
                    lastEvent'.returned.message # "Not authenticated with Uptime Kuma"
        /\ (proc'.isAuthenticated /\ ~proc.isAuthenticated) =>
              /\ sockets[socket].promise = "resolved"
              /\ logins # <<>>
              /\ logins[Len(logins)].chan = socket
              /\ logins[Len(logins)].emitted
              /\ logins[Len(logins)].state = "resolved"
        /\ proc.isAuthenticated => proc'.isAuthenticated ]_vars

\* the channel was lost after monitors had been cached, and the listMonitors
\* tool answered from the cache
C38_Witness ==
    /\ lastEvent.op = "tool.listMonitors"
    /\ ~lastEvent.threw
    /\ lastEvent.returned.count >= 1
    /\ proc.isAuthenticated
    /\ socket # NoSocket
    /\ ~sockets[socket].connected

\* C39: every login() call whose request was sent on an established channel
\* is eventually settled, resolved or rejected, also when disconnect() is
\* called while the acknowledgement is outstanding
C39_LoginSettles ==
    \A l \in 1..MaxLogins :
        (l <= Len(logins) /\ logins[l].state = "pending")
            ~> (l <= Len(logins) /\ logins[l].state # "pending")

====
